---- MODULE Spec2Model ----
(***************************************************************************)
(* Annotation editing and undo/redo history engine of the PDF editor page  *)
(* (PDFEditorPlatform, src/unnamed/part_000).                              *)
(*                                                                         *)
(* One action is one event handler or timer callback together with the     *)
(* React render and the effects that render runs: state updates of one     *)
(* handler are batched, the component re-renders, and every useEffect      *)
(* whose dependencies changed runs its cleanup and then its body.          *)
(*                                                                         *)
(* Lengths are integers in hundredths of a pixel (Px(1) = 100), so that    *)
(* fontSize * 0.6 and x * (zoomLevel / 100) stay exact.                    *)
(* An optional value (T | null, field?: T) is a sequence of length 0 or 1. *)
(***************************************************************************)
EXTENDS Integers, Sequences, FiniteSets, TLC

VARIABLES
    clock,                  \* Date.now(), in milliseconds since the page was opened
    pdfLibLoaded,           \* useState(false), line 145
    selectedFile,           \* SelectedFile | null, line 126
    pendingLoads,           \* loadPdfDocument calls awaiting pdf.js
    pdfLoaded,              \* line 137
    pdfPages,               \* PDFPage[], line 128
    currentPage,            \* line 129
    zoomLevel,              \* line 130
    pageRotation,           \* line 149
    selectedTool,           \* line 131
    selectedColor,          \* line 133
    fontSize,               \* line 134
    annotations,            \* Annotation[], line 132
    isDrawing,              \* line 135
    startPos,               \* line 136
    drawingAnnotation,      \* Annotation | null, line 138
    editingTextAnnotation,  \* Annotation | null, line 140
    textEditMode,           \* line 143
    selectedTextItem,       \* PDFTextItem | null, line 144
    history,                \* HistoryState[], line 141
    historyIndex,           \* line 142 (0-based, as in the code)
    historyTimer,           \* the setTimeout of the history effect, with its closure
    nextId,                 \* number of ids handed out by addAnnotation
    pdfDocRef,              \* useRef, line 156
    errorMessage,           \* line 147
    renderingPage,          \* line 146, as of the last render of the component
    renderTimeoutRef,       \* useRef, line 157: the pending render timer, with its closure
    renderCalls,            \* the renderPdfPage calls that have not returned
    canvas,                 \* what the mounted <canvas> shows
    user,                   \* AppUser | null, src/app/page.tsx line 111
    selectedFiles,          \* SelectedFile[], src/app/page.tsx line 115
    fileOperations,         \* FileOperation[], page.tsx line 114, part_000 line 125
    isLoading,              \* page.tsx line 113, part_000 line 124
    job,                    \* the processFiles / processWithTool call that has not returned
    nextOpId,               \* number of operation ids handed out
    \* the server of src/unnamed/part_002
    srvUser,                \* the User document of the one signed-in account
    srvOps,                 \* the FileOperation collection
    srvReqs,                \* POST requests of the account between middleware and response
    srvTimers,              \* operations whose setTimeout(…, 2000) is pending
    srvResponse,            \* the last response of the download or status endpoint
    \* observers of the session: they record what happened, no action reads them
    lastOp,                 \* the last operation on the annotations or the history
    commitLog,              \* the committed list after each commit of the session
    pushes,                 \* firings of the history timer in the session
    recorded,               \* the history timer has fired since the last commit
    rt,                     \* progress of a "k commits, k undos, k redos" run
    branch,                 \* the index an undo went to, and whether a commit followed
    failures,               \* paints that failed in a row
    changes,                \* user actions on the document or the viewport so far
    obsMode                 \* which observers run

----------------------------------------------------------------------------
(* Bounds of the model *)

\* ids addAnnotation may hand out in one run
MaxId == 2
\* milliseconds the clock may advance
MaxClock == 2
\* entries the history may hold
MaxHistory == 3
\* entries the history may hold where an undo followed by a commit is observed
MaxHistoryBranch == 4
\* firings of the history timer the observers count
MaxPushes == 4
\* operation records the client may hold
MaxOperations == 4
\* files selected for one processFiles call
MaxSelected == 2
\* user actions on the document or the viewport before the user stops
MaxChanges == 4

----------------------------------------------------------------------------
(* Values *)

None == <<>>
Some(v) == <<v>>

Px(n) == n * 100

Min(a, b) == IF a < b THEN a ELSE b
Max(a, b) == IF a > b THEN a ELSE b
Abs(a) == IF a < 0 THEN 0 - a ELSE a

\* the tools the toolbar offers
Tools ==
    {"select", "text", "editText", "highlight", "rectangle", "circle",
     "freehand", "underline", "strikethrough"}

ShapeTools == {"highlight", "rectangle", "circle", "underline", "strikethrough"}

\* interface Annotation
Annotation(id, type, x, y, width, height, text, color, fs, page, points, originalText) ==
    [id |-> id, type |-> type, x |-> x, y |-> y, width |-> width, height |-> height,
     text |-> text, color |-> color, fontSize |-> fs, page |-> page,
     points |-> points, originalText |-> originalText]

\* interface PDFTextItem
TextItem(id, text, x, y, width, height, fs) ==
    [id |-> id, text |-> text, x |-> x, y |-> y, width |-> width, height |-> height,
     fontSize |-> fs, fontFamily |-> "sans-serif"]

\* The documents pdf.js can hand back: the number of pages of each file.
NumPages(f) == IF f = "a.pdf" THEN 2 ELSE 1

\* pagesArray as loadPdfDocument builds it: page 1 carries one text fragment.
PagesOf(f) ==
    [i \in 1..NumPages(f) |->
        [pageNumber |-> i, width |-> Px(600), height |-> Px(800), rotation |-> 0,
         textItems |-> IF i = 1
                       THEN <<TextItem(<<"text", i, 0>>, "Hello", Px(10), Px(10), Px(50), Px(14), 12)>>
                       ELSE << >>]]

docVars == <<pdfLibLoaded, selectedFile, pendingLoads, pdfLoaded, pdfPages, pdfDocRef, errorMessage>>
viewVars == <<currentPage, zoomLevel, pageRotation>>
toolVars == <<selectedTool, selectedColor, fontSize>>
gestureVars == <<isDrawing, startPos, drawingAnnotation>>
editVars == <<editingTextAnnotation, textEditMode, selectedTextItem>>
histVars == <<annotations, history, historyIndex, historyTimer, nextId>>
renderVars == <<renderingPage, renderTimeoutRef, renderCalls, canvas>>
procVars == <<user, selectedFiles, fileOperations, isLoading, job, nextOpId>>
srvVars == <<srvUser, srvOps, srvReqs, srvTimers, srvResponse>>

progVars ==
    <<clock, pdfLibLoaded, selectedFile, pendingLoads, pdfLoaded, pdfPages, currentPage,
      zoomLevel, pageRotation, selectedTool, selectedColor, fontSize, annotations,
      isDrawing, startPos, drawingAnnotation, editingTextAnnotation, textEditMode,
      selectedTextItem, history, historyIndex, historyTimer, nextId, pdfDocRef,
      errorMessage, renderingPage, renderTimeoutRef, renderCalls, canvas,
      user, selectedFiles, fileOperations, isLoading, job, nextOpId,
      srvUser, srvOps, srvReqs, srvTimers, srvResponse>>

obsVars == <<lastOp, commitLog, pushes, recorded, rt, branch, failures, changes, obsMode>>

vars == <<progVars, obsVars>>

----------------------------------------------------------------------------
(* State after construction: the useState / useRef initial values *)

Init ==
    /\ clock = 0
    /\ pdfLibLoaded = FALSE
    /\ selectedFile = None
    /\ pendingLoads = {}
    /\ pdfLoaded = FALSE
    /\ pdfPages = << >>
    /\ currentPage = 1
    /\ zoomLevel = 100
    /\ pageRotation = 0
    /\ selectedTool = "select"
    /\ selectedColor = "#ff0000"
    /\ fontSize = 16
    /\ annotations = << >>
    /\ isDrawing = FALSE
    /\ startPos = <<0, 0>>
    /\ drawingAnnotation = None
    /\ editingTextAnnotation = None
    /\ textEditMode = FALSE
    /\ selectedTextItem = None
    /\ history = <<[annotations |-> << >>]>>
    /\ historyIndex = 0
    /\ historyTimer = None
    /\ nextId = 0
    /\ pdfDocRef = None
    /\ errorMessage = None
    /\ renderingPage = FALSE
    /\ renderTimeoutRef = None
    /\ renderCalls = << >>
    /\ canvas = None
    /\ user = None
    /\ selectedFiles = << >>
    /\ fileOperations = << >>
    /\ isLoading = FALSE
    /\ job = None
    /\ nextOpId = 0
    /\ srvUser = [plan |-> "free", dailyUsage |-> 0]
    /\ srvOps = << >>
    /\ srvReqs = << >>
    /\ srvTimers = {}
    /\ srvResponse = None
    /\ lastOp = "none"
    /\ commitLog = << >>
    /\ pushes = 0
    /\ recorded = TRUE
    /\ rt = [phase |-> "commit", k |-> 0, target |-> << >>, undos |-> 0, redos |-> 0]
    /\ branch = None
    /\ failures = 0
    /\ changes = 0

----------------------------------------------------------------------------
(* Undo/redo history *)

\* prev.slice(0, n)
Slice(s, n) == SubSeq(s, 1, Min(n, Len(s)))

\* addToHistory truncating one entry too many: prev.slice(0, historyIndex)
AddToHistoryShort(prev, idx, newAnnotations) ==
    Append(Slice(prev, idx), [annotations |-> newAnnotations])

\* addToHistory(newAnnotations) of the render whose historyIndex was idx:
\* the setHistory updater applied to prev.
AddToHistory(prev, idx, newAnnotations) ==
    Append(Slice(prev, idx + 1), [annotations |-> newAnnotations])

\* Body of the effect "add to history when annotations change": the timer it
\* sets closes over the annotations and the addToHistory of its render.
HistoryEffectBody(anns, idx) ==
    IF Len(anns) > 0
    THEN Some([annotations |-> anns, historyIndex |-> idx])
    ELSE None

\* The effect runs again when the annotations array or addToHistory (that is,
\* historyIndex) changed in the render; its cleanup clears the previous timer.
HistoryEffectRuns(annotationsChanged, oldIdx, newIdx) ==
    annotationsChanged \/ newIdx # oldIdx

HistoryEffect(annotationsChanged) ==
    historyTimer' =
        IF HistoryEffectRuns(annotationsChanged, historyIndex, historyIndex')
        THEN HistoryEffectBody(annotations', historyIndex')
        ELSE historyTimer

\* the 500 ms timer of the history effect fires
HistoryTimerFire ==
    /\ historyTimer # None
    /\ LET t == historyTimer[1] IN
        /\ history' = AddToHistory(history, t.historyIndex, t.annotations)
        /\ historyIndex' = historyIndex + 1
    /\ UNCHANGED <<annotations, nextId>>
    /\ HistoryEffect(FALSE)
    /\ UNCHANGED <<clock, procVars, srvVars, renderVars, docVars, viewVars, toolVars, gestureVars, editVars>>

\* the annotation tools card and the overlay are rendered
EditorShown == selectedFile # None /\ pdfLoaded

UndoAllowed(idx) == idx > 0

\* undo clamping the index at 0 instead of returning at the boundary
UndoClamped ==
    /\ EditorShown
    /\ historyIndex' = Max(0, historyIndex - 1)
    /\ annotations' = history[historyIndex' + 1].annotations
    /\ HistoryEffect(TRUE)
    /\ UNCHANGED <<history, nextId>>
    /\ UNCHANGED <<clock, procVars, srvVars, renderVars, docVars, viewVars, toolVars, gestureVars, editVars>>

Undo ==
    /\ EditorShown
    /\ IF UndoAllowed(historyIndex)
       THEN /\ historyIndex' = historyIndex - 1
            /\ annotations' = history[historyIndex' + 1].annotations
            /\ HistoryEffect(TRUE)
       ELSE UNCHANGED <<historyIndex, annotations, historyTimer>>
    /\ UNCHANGED <<history, nextId>>
    /\ UNCHANGED <<clock, procVars, srvVars, renderVars, docVars, viewVars, toolVars, gestureVars, editVars>>

RedoAllowed(idx, len) == idx < len - 1

\* redo clamping the index at the tail instead of returning at the boundary
RedoClamped ==
    /\ EditorShown
    /\ historyIndex' = Min(Len(history) - 1, historyIndex + 1)
    /\ annotations' = history[historyIndex' + 1].annotations
    /\ HistoryEffect(TRUE)
    /\ UNCHANGED <<history, nextId>>
    /\ UNCHANGED <<clock, procVars, srvVars, renderVars, docVars, viewVars, toolVars, gestureVars, editVars>>

Redo ==
    /\ EditorShown
    /\ IF RedoAllowed(historyIndex, Len(history))
       THEN /\ historyIndex' = historyIndex + 1
            /\ annotations' = history[historyIndex' + 1].annotations
            /\ HistoryEffect(TRUE)
       ELSE UNCHANGED <<historyIndex, annotations, historyTimer>>
    /\ UNCHANGED <<history, nextId>>
    /\ UNCHANGED <<clock, procVars, srvVars, renderVars, docVars, viewVars, toolVars, gestureVars, editVars>>

----------------------------------------------------------------------------
(* Committed annotations *)

\* addAnnotation: the setAnnotations updater, with the fresh id
AddAnnotation(prev, annotation) ==
    Append(prev, [annotation EXCEPT !.id = <<"", nextId>>])

RemoveFirst(prev, annotationId) ==
    IF prev = << >> THEN prev ELSE Tail(prev)

\* removeAnnotation: the setAnnotations updater
RemoveAnnotationFrom(prev, annotationId) ==
    SelectSeq(prev, LAMBDA a : a.id # annotationId)

\* a handler that calls addAnnotation once
Commit(annotation) ==
    /\ annotations' = AddAnnotation(annotations, annotation)
    /\ nextId' = nextId + 1
    /\ UNCHANGED <<history, historyIndex>>
    /\ HistoryEffect(TRUE)

AnnotationsForAnyPage(anns, n) == anns

\* pageAnnotations
AnnotationsForPage(anns, n) == SelectSeq(anns, LAMBDA a : a.page = n)

\* click on an annotation of the overlay with the select tool, confirmed
RemoveAnnotation(annotationId) ==
    /\ EditorShown
    /\ ~textEditMode
    /\ selectedTool = "select"
    /\ LET pageAnnotations == AnnotationsForPage(annotations, currentPage) IN
       \E i \in DOMAIN pageAnnotations : pageAnnotations[i].id = annotationId
    /\ annotations' = RemoveAnnotationFrom(annotations, annotationId)
    /\ UNCHANGED <<history, historyIndex, nextId>>
    /\ HistoryEffect(TRUE)
    /\ UNCHANGED <<clock, procVars, srvVars, renderVars, docVars, viewVars, toolVars, gestureVars, editVars>>

----------------------------------------------------------------------------
(* Pointer gestures on the overlay *)

OverlayActive == EditorShown /\ ~textEditMode

\* x * (zoomLevel / 100)
Scale(v, zoom) == (v * zoom) \div 100

\* text.trim() is empty
IsBlank(t) == t \in {"", " ", "  "}

\* handleCanvasMouseDown, selectedTool === "select"
MouseDownSelect ==
    /\ OverlayActive
    /\ selectedTool = "select"
    /\ UNCHANGED progVars

TextWidthFull(t, fs) == Len(t) * (fs * 100)

\* width and height of a text annotation
TextWidth(t, fs) == Len(t) * (fs * 60)
TextHeight(fs) == Px(fs + 4)

\* handleCanvasMouseDown, selectedTool === "text"; input is what prompt() returns
MouseDownText(x, y, input) ==
    /\ OverlayActive
    /\ selectedTool = "text"
    /\ startPos' = <<x, y>>
    /\ isDrawing' = FALSE
    /\ IF input # None /\ ~IsBlank(input[1])
       THEN Commit(Annotation(None, "text", x, y, TextWidth(input[1], fontSize),
                              TextHeight(fontSize), Some(input[1]), selectedColor,
                              Some(fontSize), currentPage, None, None))
       ELSE UNCHANGED histVars
    /\ UNCHANGED drawingAnnotation
    /\ UNCHANGED <<clock, procVars, srvVars, renderVars, docVars, viewVars, toolVars, editVars>>

HitPaddingWide == 4 * 5

\* the hit test of the editText tool, padding 5
HitPadding == 5

Hit(item, x, y, zoom) ==
    /\ x >= Scale(item.x, zoom) - Px(HitPadding)
    /\ x <= Scale(item.x + item.width, zoom) + Px(HitPadding)
    /\ y >= Scale(item.y, zoom) - Px(HitPadding)
    /\ y <= Scale(item.y + item.height, zoom) + Px(HitPadding)

\* currentPageData?.textItems || []
CurrentTextItems ==
    IF currentPage \in DOMAIN pdfPages THEN pdfPages[currentPage].textItems ELSE << >>

\* textItems.find(...)
ClickedItem(x, y) ==
    LET items == CurrentTextItems
        hits == {i \in 1..Len(items) : Hit(items[i], x, y, zoomLevel)}
    IN IF hits = {} THEN None
       ELSE Some(items[CHOOSE i \in hits : \A j \in hits : i <= j])

\* handleCanvasMouseDown, selectedTool === "editText"
MouseDownEditText(x, y) ==
    /\ OverlayActive
    /\ selectedTool = "editText"
    /\ startPos' = <<x, y>>
    /\ isDrawing' = FALSE
    /\ LET clicked == ClickedItem(x, y) IN
        IF clicked # None
        THEN LET item == clicked[1] IN
             /\ selectedTextItem' = clicked
             /\ editingTextAnnotation' =
                   Some(Annotation(<<"edit-", nextId>>, "editText",
                                   Scale(item.x, zoomLevel), Scale(item.y, zoomLevel),
                                   Scale(item.width, zoomLevel), Scale(item.height, zoomLevel),
                                   Some(item.text), selectedColor, Some(item.fontSize),
                                   currentPage, None, Some(item.text)))
             /\ textEditMode' = TRUE
        ELSE UNCHANGED editVars
    /\ UNCHANGED drawingAnnotation
    /\ UNCHANGED <<clock, procVars, srvVars, renderVars, docVars, viewVars, toolVars, histVars>>

\* handleCanvasMouseDown, one of the five shape tools
MouseDownShape(x, y) ==
    /\ OverlayActive
    /\ selectedTool \in ShapeTools
    /\ startPos' = <<x, y>>
    /\ isDrawing' = TRUE
    /\ drawingAnnotation' =
          Some(Annotation(<<"temp-", nextId>>, selectedTool, x, y, 0, 0, None,
                          selectedColor, None, currentPage, None, None))
    /\ UNCHANGED <<clock, procVars, srvVars, renderVars, docVars, viewVars, toolVars, editVars, histVars>>

\* handleCanvasMouseDown, selectedTool === "freehand"
MouseDownFreehand(x, y) ==
    /\ OverlayActive
    /\ selectedTool = "freehand"
    /\ startPos' = <<x, y>>
    /\ isDrawing' = TRUE
    /\ Commit(Annotation(None, "freehand", x, y, Px(3), Px(3), None, selectedColor,
                         None, currentPage, Some(<<x, y>>), None))
    /\ UNCHANGED drawingAnnotation
    /\ UNCHANGED <<clock, procVars, srvVars, renderVars, docVars, viewVars, toolVars, editVars>>

MouseMoveFreehandAlways(x, y) ==
    /\ OverlayActive
    /\ selectedTool = "freehand"
    /\ Commit(Annotation(None, "freehand", x, y, Px(2), Px(2), None, selectedColor,
                         None, currentPage, Some(<<x, y>>), None))
    /\ UNCHANGED <<clock, procVars, srvVars, renderVars, docVars, viewVars, toolVars, gestureVars, editVars>>

\* handleCanvasMouseMove, selectedTool === "freehand"
MouseMoveFreehand(x, y) ==
    /\ OverlayActive
    /\ isDrawing
    /\ selectedTool = "freehand"
    /\ Commit(Annotation(None, "freehand", x, y, Px(2), Px(2), None, selectedColor,
                         None, currentPage, Some(<<x, y>>), None))
    /\ UNCHANGED <<clock, procVars, srvVars, renderVars, docVars, viewVars, toolVars, gestureVars, editVars>>

DragBoxFromStart(d, start, x, y) ==
    [d EXCEPT !.width = Abs(x - start[1]), !.height = Abs(y - start[2]),
              !.x = start[1], !.y = start[2]]

\* the box between the start point and the pointer
DragBox(d, start, x, y) ==
    [d EXCEPT !.width = Abs(x - start[1]), !.height = Abs(y - start[2]),
              !.x = Min(start[1], x), !.y = Min(start[2], y)]

\* handleCanvasMouseMove with a pending shape
MouseMoveShape(x, y) ==
    /\ OverlayActive
    /\ isDrawing
    /\ selectedTool \notin {"select", "text", "editText", "freehand"}
    /\ drawingAnnotation # None
    /\ drawingAnnotation' = Some(DragBox(drawingAnnotation[1], startPos, x, y))
    /\ UNCHANGED <<isDrawing, startPos>>
    /\ UNCHANGED <<clock, procVars, srvVars, renderVars, docVars, viewVars, toolVars, editVars, histVars>>

\* handleCanvasMouseMove where it returns at once or finds nothing pending
MouseMoveIdle ==
    /\ OverlayActive
    /\ \/ ~isDrawing
       \/ selectedTool \in {"select", "text", "editText"}
       \/ selectedTool # "freehand" /\ drawingAnnotation = None
    /\ UNCHANGED progVars

\* handleCanvasMouseMove
MouseMove(x, y) ==
    \/ MouseMoveFreehand(x, y)
    \/ MouseMoveShape(x, y)
    \/ MouseMoveIdle

\* the minimum size of a committed shape
MinShapeSize == 5

BigEnoughBoth(d) == d.width > Px(MinShapeSize) /\ d.height > Px(MinShapeSize)

BigEnough(d) == d.width > Px(MinShapeSize) \/ d.height > Px(MinShapeSize)

\* the annotation handleCanvasMouseUp hands to addAnnotation: a copy of the
\* pending one without its id, on the page shown at release
ShapeFromPending(d, page) ==
    Annotation(None, d.type, d.x, d.y, d.width, d.height, None, d.color, None,
               page, None, None)

CommitPendingItself(d) ==
    /\ annotations' = Append(annotations, d)
    /\ nextId' = nextId + 1
    /\ UNCHANGED <<history, historyIndex>>
    /\ HistoryEffect(TRUE)

\* the addAnnotation call of handleCanvasMouseUp
CommitPending(d) == Commit(ShapeFromPending(d, currentPage))

\* handleCanvasMouseUp (onMouseUp and onMouseLeave)
MouseUp ==
    /\ OverlayActive
    /\ IF ~isDrawing
       THEN UNCHANGED <<gestureVars, histVars>>
       ELSE /\ isDrawing' = FALSE
            /\ UNCHANGED startPos
            /\ IF drawingAnnotation # None
               THEN /\ drawingAnnotation' = None
                    /\ IF BigEnough(drawingAnnotation[1])
                       THEN CommitPending(drawingAnnotation[1])
                       ELSE UNCHANGED histVars
               ELSE UNCHANGED <<drawingAnnotation, histVars>>
    /\ UNCHANGED <<clock, procVars, srvVars, renderVars, docVars, viewVars, toolVars, editVars>>

EditedAnnotationAsStaged(e, newText) ==
    Annotation(None, "editText", e.x, e.y, e.width, e.height, e.text,
               selectedColor,
               IF e.fontSize # None /\ e.fontSize[1] # 0
               THEN e.fontSize ELSE Some(fontSize),
               currentPage, None, e.originalText)

\* the annotation handleTextEditSave hands to addAnnotation
EditedAnnotation(e, newText) ==
    Annotation(None, "editText", e.x, e.y, e.width, e.height, Some(newText),
               selectedColor,
               IF e.fontSize # None /\ e.fontSize[1] # 0
               THEN e.fontSize ELSE Some(fontSize),
               currentPage, None, e.originalText)

\* handleTextEditSave; newText is the value of the textarea
TextEditSave(newText) ==
    /\ EditorShown
    /\ textEditMode
    /\ editingTextAnnotation # None
    /\ Commit(EditedAnnotation(editingTextAnnotation[1], newText))
    /\ editingTextAnnotation' = None
    /\ textEditMode' = FALSE
    /\ selectedTextItem' = None
    /\ UNCHANGED <<clock, procVars, srvVars, renderVars, docVars, viewVars, toolVars, gestureVars>>

\* handleTextEditCancel
TextEditCancel ==
    /\ EditorShown
    /\ textEditMode
    /\ editingTextAnnotation # None
    /\ editingTextAnnotation' = None
    /\ textEditMode' = FALSE
    /\ selectedTextItem' = None
    /\ UNCHANGED <<clock, procVars, srvVars, renderVars, docVars, viewVars, toolVars, gestureVars, histVars>>

----------------------------------------------------------------------------
(* The page renderer. A timer of renderTimeoutRef carries the values its     *)
(* callback closes over: those of the render that scheduled it.              *)

\* canvasRef.current: the <canvas> is in the tree with the loaded document
CanvasMounted(file, loaded) == file # None /\ loaded

RenderTimer(kind, file, loaded, busy, page, zoom, rotation) ==
    [kind |-> kind, currentEditingFile |-> file, pdfLoaded |-> loaded,
     renderingPage |-> busy, pageNumber |-> page, zoomLevel |-> zoom,
     pageRotation |-> rotation]

\* body of the render effect: a render of the current page in 100 ms
RenderEffectBody(file, loaded, doc, busy, page, zoom, rotation) ==
    IF loaded /\ doc # None /\ CanvasMounted(file, loaded) /\ ~busy
    THEN Some(RenderTimer("effect", file, loaded, busy, page, zoom, rotation))
    ELSE None

\* dependencies without the busy flag
RenderDepsWithoutBusy == <<selectedFile, pdfLoaded, currentPage, zoomLevel, pageRotation>>

\* the dependencies of the render effect, renderPdfPage standing for its own
RenderDeps == <<selectedFile, pdfLoaded, currentPage, zoomLevel, pageRotation, renderingPage>>

\* The render effect in the render that follows a handler which left ref in
\* renderTimeoutRef: when a dependency changed, or the file object is a new
\* one, the cleanup clears the timer and the body may set the next.
RenderEffectAfter(ref, newFile) ==
    renderTimeoutRef' =
        IF newFile \/ RenderDeps' # RenderDeps
        THEN RenderEffectBody(selectedFile', pdfLoaded', pdfDocRef', renderingPage',
                              currentPage', zoomLevel', pageRotation')
        ELSE ref

\* a forceRenderPDF that does not look at the busy flag
ForceRenderPDFUnguarded ==
    Some(RenderTimer("force", selectedFile, pdfLoaded, FALSE,
                     currentPage, zoomLevel, pageRotation))

\* forceRenderPDF under the values of the current render: a render in 50 ms
ForceRenderPDF ==
    IF pdfLoaded /\ pdfDocRef # None /\ ~renderingPage
    THEN Some(RenderTimer("force", selectedFile, pdfLoaded, renderingPage,
                          currentPage, zoomLevel, pageRotation))
    ELSE renderTimeoutRef

\* a renderPdfPage call holding a canvas that left the tree paints nothing visible
Detach(calls) ==
    [i \in DOMAIN calls |->
        IF calls[i].stage = "paint" THEN [calls[i] EXCEPT !.detached = TRUE] ELSE calls[i]]

\* the <canvas> of a render in which the document area was replaced is a new one
CanvasAfterRender ==
    IF CanvasMounted(selectedFile, pdfLoaded) /\ CanvasMounted(selectedFile', pdfLoaded')
    THEN UNCHANGED <<canvas, renderCalls>>
    ELSE canvas' = None /\ renderCalls' = Detach(renderCalls)

RemoveAt(s, i) == SubSeq(s, 1, i - 1) \o SubSeq(s, i + 1, Len(s))

\* the guard of renderPdfPage under the closure of the timer t
RenderPassesGuard(t) ==
    t.currentEditingFile # None /\ t.pdfLoaded /\ pdfDocRef # None /\ ~t.renderingPage

\* the callback of the timer t reaches renderPdfPage
RenderCalled(t) == t.kind = "retry" => (t.pdfLoaded /\ pdfDocRef # None)

\* The render timer fires; renderPdfPage sets the busy flag and waits for the
\* page, and React renders before the page arrives.
RenderTimerFire ==
    /\ renderTimeoutRef # None
    /\ LET t == renderTimeoutRef[1]
           starts == RenderCalled(t) /\ RenderPassesGuard(t)
       IN /\ renderCalls' =
                IF starts
                THEN Append(renderCalls,
                            [closure |-> t, pdf |-> pdfDocRef[1], stage |-> "getPage",
                             detached |-> FALSE])
                ELSE renderCalls
          /\ renderingPage' =
                IF starts THEN TRUE
                ELSE IF t.kind = "retry" /\ RenderCalled(t) THEN FALSE ELSE renderingPage
    /\ UNCHANGED <<pdfLibLoaded, selectedFile, pendingLoads, pdfLoaded, pdfPages, pdfDocRef,
                   errorMessage, canvas>>
    /\ UNCHANGED <<clock, procVars, srvVars, viewVars, toolVars, gestureVars, editVars, histVars>>
    /\ RenderEffectAfter(None, FALSE)

\* the retry the catch branch of the call c schedules, 1000 ms
RetryTimer(c) == Some([c.closure EXCEPT !.kind = "retry"])

RenderErrorText == "Error rendering PDF page. Please try refreshing the page."

\* The render timer fires and the call is rejected before React renders: the
\* busy flag is set and released in one batch.
RenderRejectedAtOnce ==
    /\ renderTimeoutRef # None
    /\ RenderCalled(renderTimeoutRef[1]) /\ RenderPassesGuard(renderTimeoutRef[1])
    /\ errorMessage' = Some(RenderErrorText)
    /\ renderingPage' = FALSE
    /\ UNCHANGED <<pdfLibLoaded, selectedFile, pendingLoads, pdfLoaded, pdfPages, pdfDocRef,
                   renderCalls, canvas>>
    /\ UNCHANGED <<clock, procVars, srvVars, viewVars, toolVars, gestureVars, editVars, histVars>>
    /\ RenderEffectAfter(Some([renderTimeoutRef[1] EXCEPT !.kind = "retry"]), FALSE)

\* pdf.getPage has answered: without a canvas the call returns, with one it
\* clears and resizes the canvas and starts page.render
RenderGotPage(i) ==
    /\ i \in DOMAIN renderCalls
    /\ renderCalls[i].stage = "getPage"
    /\ UNCHANGED <<clock, procVars, srvVars, docVars, viewVars, toolVars, gestureVars, editVars, histVars>>
    /\ IF CanvasMounted(selectedFile, pdfLoaded)
       THEN /\ renderCalls' = [renderCalls EXCEPT ![i].stage = "paint"]
            /\ canvas' = None
            /\ UNCHANGED <<renderingPage, renderTimeoutRef>>
       ELSE /\ renderCalls' = RemoveAt(renderCalls, i)
            /\ renderingPage' = FALSE
            /\ UNCHANGED canvas
            /\ RenderEffectAfter(renderTimeoutRef, FALSE)

\* what a completed paint leaves on the canvas
Painted(c) ==
    [pdf |-> c.pdf, pageNumber |-> c.closure.pageNumber, zoomLevel |-> c.closure.zoomLevel,
     pageRotation |-> c.closure.pageRotation]

\* page.render has completed; finally releases the busy flag
RenderDone(i) ==
    /\ i \in DOMAIN renderCalls
    /\ renderCalls[i].stage = "paint"
    /\ canvas' = IF renderCalls[i].detached THEN canvas ELSE Some(Painted(renderCalls[i]))
    /\ renderCalls' = RemoveAt(renderCalls, i)
    /\ renderingPage' = FALSE
    /\ UNCHANGED <<clock, procVars, srvVars, docVars, viewVars, toolVars, gestureVars, editVars, histVars>>
    /\ RenderEffectAfter(renderTimeoutRef, FALSE)

\* pdf.getPage or page.render has thrown: catch, then finally
RenderFail(i) ==
    /\ i \in DOMAIN renderCalls
    /\ errorMessage' = Some(RenderErrorText)
    /\ renderCalls' = RemoveAt(renderCalls, i)
    /\ renderingPage' = FALSE
    /\ UNCHANGED <<pdfLibLoaded, selectedFile, pendingLoads, pdfLoaded, pdfPages, pdfDocRef, canvas>>
    /\ UNCHANGED <<clock, procVars, srvVars, viewVars, toolVars, gestureVars, editVars, histVars>>
    /\ RenderEffectAfter(RetryTimer(renderCalls[i]), FALSE)

----------------------------------------------------------------------------
(* Documents *)

\* script.onload of the pdf.js loader
PdfLibLoaded ==
    /\ ~pdfLibLoaded
    /\ pdfLibLoaded' = TRUE
    /\ UNCHANGED <<clock, procVars, srvVars, renderVars, selectedFile, pendingLoads, pdfLoaded, pdfPages, pdfDocRef, errorMessage>>
    /\ UNCHANGED <<viewVars, toolVars, gestureVars, editVars, histVars>>

\* handleFileSelect for a valid PDF file, up to the await in loadPdfDocument
FileSelect(f) ==
    /\ selectedFile' = Some(f)
    /\ history' = <<[annotations |-> << >>]>>
    /\ historyIndex' = 0
    /\ annotations' = << >>
    /\ pdfLoaded' = FALSE
    /\ pdfPages' = << >>
    /\ currentPage' = 1
    /\ pageRotation' = 0
    /\ errorMessage' = None
    /\ pendingLoads' = IF pdfLibLoaded THEN pendingLoads \cup {f} ELSE pendingLoads
    /\ HistoryEffect(TRUE)
    /\ UNCHANGED renderingPage
    /\ UNCHANGED <<clock, procVars, srvVars, pdfLibLoaded, pdfDocRef, zoomLevel, nextId>>
    /\ UNCHANGED <<toolVars, gestureVars, editVars>>
    /\ RenderEffectAfter(renderTimeoutRef, TRUE)
    /\ CanvasAfterRender

\* handleFileSelect whose state updates are queued after an await, so outside
\* an event handler: the history timer of the previous render is still pending
\* and comes due before React renders the reset. Its updaters are applied on
\* top of the queued reset, and the render that follows cancels nothing.
FileSelectStaleTimer(f) ==
    /\ historyTimer # None
    /\ selectedFile' = Some(f)
    /\ history' = AddToHistory(<<[annotations |-> << >>]>>,
                               historyTimer[1].historyIndex, historyTimer[1].annotations)
    /\ historyIndex' = 0 + 1
    /\ annotations' = << >>
    /\ pdfLoaded' = FALSE
    /\ pdfPages' = << >>
    /\ currentPage' = 1
    /\ pageRotation' = 0
    /\ errorMessage' = None
    /\ pendingLoads' = IF pdfLibLoaded THEN pendingLoads \cup {f} ELSE pendingLoads
    /\ historyTimer' = HistoryEffectBody(annotations', historyIndex')
    /\ UNCHANGED renderingPage
    /\ UNCHANGED <<clock, procVars, srvVars, pdfLibLoaded, pdfDocRef, zoomLevel, nextId>>
    /\ UNCHANGED <<toolVars, gestureVars, editVars>>
    /\ RenderEffectAfter(renderTimeoutRef, TRUE)
    /\ CanvasAfterRender

\* loadPdfDocument after pdf.js has delivered the document and its pages
LoadDone(f) ==
    /\ f \in pendingLoads
    /\ pendingLoads' = pendingLoads \ {f}
    /\ pdfDocRef' = Some(f)
    /\ pdfPages' = PagesOf(f)
    /\ pdfLoaded' = TRUE
    /\ currentPage' = 1
    /\ UNCHANGED renderingPage
    /\ UNCHANGED <<clock, procVars, srvVars, pdfLibLoaded, selectedFile, errorMessage, zoomLevel, pageRotation>>
    /\ UNCHANGED <<toolVars, gestureVars, editVars, histVars>>
    /\ RenderEffectAfter(renderTimeoutRef, FALSE)
    /\ CanvasAfterRender

\* loadPdfDocument, catch branch
LoadFail(f) ==
    /\ f \in pendingLoads
    /\ pendingLoads' = pendingLoads \ {f}
    /\ errorMessage' = Some("Error loading PDF. The file may be corrupted or password protected.")
    /\ UNCHANGED <<clock, procVars, srvVars, renderVars, pdfLibLoaded, selectedFile, pdfLoaded, pdfPages, pdfDocRef>>
    /\ UNCHANGED <<viewVars, toolVars, gestureVars, editVars, histVars>>

\* removeFile
RemoveFile ==
    /\ selectedFile # None
    /\ selectedFile' = None
    /\ pdfLoaded' = FALSE
    /\ pdfPages' = << >>
    /\ annotations' = << >>
    /\ currentPage' = 1
    /\ history' = <<[annotations |-> << >>]>>
    /\ historyIndex' = 0
    /\ pageRotation' = 0
    /\ errorMessage' = None
    /\ pdfDocRef' = None
    /\ HistoryEffect(TRUE)
    /\ UNCHANGED renderingPage
    /\ UNCHANGED <<clock, procVars, srvVars, pdfLibLoaded, pendingLoads, zoomLevel, nextId>>
    /\ UNCHANGED <<toolVars, gestureVars, editVars>>
    /\ RenderEffectAfter(None, FALSE)
    /\ CanvasAfterRender

----------------------------------------------------------------------------
(* Tools and viewport *)

\* the colours of the palette
Colors == {"#ff0000", "#00ff00", "#0000ff", "#ffff00", "#ff00ff", "#00ffff", "#000000", "#888888"}

\* a tool button
SelectTool(t) ==
    /\ EditorShown
    /\ selectedTool' = t
    /\ UNCHANGED <<selectedColor, fontSize>>
    /\ UNCHANGED <<renderingPage, renderCalls, canvas>>
    /\ UNCHANGED <<clock, procVars, srvVars, docVars, viewVars, gestureVars, editVars, histVars>>
    /\ RenderEffectAfter(ForceRenderPDF, FALSE)

\* a palette button
SetColor(c) ==
    /\ EditorShown
    /\ selectedColor' = c
    /\ UNCHANGED <<selectedTool, fontSize>>
    /\ UNCHANGED <<clock, procVars, srvVars, renderVars, docVars, viewVars, gestureVars, editVars, histVars>>

ZoomMin == 25
\* an upper limit one step too high
ZoomMaxHigh == 200 + 25
ZoomMax == 200
ZoomStep == 25

ZoomOut ==
    /\ EditorShown
    /\ zoomLevel' = Max(ZoomMin, zoomLevel - ZoomStep)
    /\ UNCHANGED <<currentPage, pageRotation>>
    /\ UNCHANGED <<renderingPage, renderCalls, canvas>>
    /\ UNCHANGED <<clock, procVars, srvVars, docVars, toolVars, gestureVars, editVars, histVars>>
    /\ RenderEffectAfter(renderTimeoutRef, FALSE)

ZoomIn ==
    /\ EditorShown
    /\ zoomLevel' = Min(ZoomMax, zoomLevel + ZoomStep)
    /\ UNCHANGED <<currentPage, pageRotation>>
    /\ UNCHANGED <<renderingPage, renderCalls, canvas>>
    /\ UNCHANGED <<clock, procVars, srvVars, docVars, toolVars, gestureVars, editVars, histVars>>
    /\ RenderEffectAfter(renderTimeoutRef, FALSE)

\* the reset button between the zoom buttons
ZoomReset ==
    /\ EditorShown
    /\ zoomLevel' = 100
    /\ UNCHANGED <<currentPage, pageRotation>>
    /\ UNCHANGED <<renderingPage, renderCalls, canvas>>
    /\ UNCHANGED <<clock, procVars, srvVars, docVars, toolVars, gestureVars, editVars, histVars>>
    /\ RenderEffectAfter(renderTimeoutRef, FALSE)

\* a quarter turn that does not wrap
NextRotationUnwrapped(prev) == prev + 90

\* the updater of rotatePage
NextRotation(prev) == (prev + 90) % 360

\* rotatePage, behind the Rotate button
RotatePage ==
    /\ EditorShown
    /\ ~isLoading
    /\ pageRotation' = NextRotation(pageRotation)
    /\ UNCHANGED <<currentPage, zoomLevel>>
    /\ UNCHANGED <<renderingPage, renderCalls, canvas>>
    /\ UNCHANGED <<clock, procVars, srvVars, docVars, toolVars, gestureVars, editVars, histVars>>
    /\ RenderEffectAfter(renderTimeoutRef, FALSE)

\* the font size slider
FontSizeMin == 8
FontSizeMax == 72

SetFontSize(v) ==
    /\ EditorShown
    /\ v \in FontSizeMin..FontSizeMax
    /\ fontSize' = v
    /\ UNCHANGED <<selectedTool, selectedColor>>
    /\ UNCHANGED <<clock, procVars, srvVars, renderVars, docVars, viewVars, gestureVars, editVars, histVars>>

\* a page button that opens the page after its own
SetPageBeyond(n) ==
    /\ EditorShown
    /\ Len(pdfPages) > 1
    /\ n \in DOMAIN pdfPages
    /\ currentPage' = pdfPages[n].pageNumber + 1
    /\ UNCHANGED <<zoomLevel, pageRotation>>
    /\ UNCHANGED <<renderingPage, renderCalls, canvas>>
    /\ UNCHANGED <<clock, procVars, srvVars, docVars, toolVars, gestureVars, editVars, histVars>>
    /\ RenderEffectAfter(ForceRenderPDF, FALSE)

\* a button of the page list
SetPage(n) ==
    /\ EditorShown
    /\ Len(pdfPages) > 1
    /\ n \in DOMAIN pdfPages
    /\ currentPage' = pdfPages[n].pageNumber
    /\ UNCHANGED <<zoomLevel, pageRotation>>
    /\ UNCHANGED <<renderingPage, renderCalls, canvas>>
    /\ UNCHANGED <<clock, procVars, srvVars, docVars, toolVars, gestureVars, editVars, histVars>>
    /\ RenderEffectAfter(ForceRenderPDF, FALSE)

----------------------------------------------------------------------------
(* The editor of src/app/page.tsx: the same state, simulated pages, no       *)
(* history; currentEditingFile is held in selectedFile.                      *)

\* the clock advances by a millisecond
Tick ==
    /\ clock < MaxClock
    /\ clock' = clock + 1
    /\ UNCHANGED <<procVars, srvVars, renderVars, docVars, viewVars, toolVars, gestureVars, editVars, histVars>>

SimulatedPageCount == 5

\* the pages openPDFEditor makes up
SimulatedPages ==
    [i \in 1..SimulatedPageCount |->
        [id |-> <<"page-", i>>, pageNumber |-> i, width |-> Px(595), height |-> Px(842),
         rotation |-> 0, annotations |-> << >>]]

OpenPDFEditor(f) ==
    /\ selectedFile' = Some(f)
    /\ pdfLoaded' = FALSE
    /\ pdfPages' = SimulatedPages
    /\ currentPage' = 1
    /\ annotations' = << >>
    /\ pendingLoads' = pendingLoads \cup {f}
    /\ UNCHANGED <<clock, procVars, srvVars, renderVars, pdfLibLoaded, pdfDocRef, errorMessage, zoomLevel, pageRotation>>
    /\ UNCHANGED <<history, historyIndex, historyTimer, nextId>>
    /\ UNCHANGED <<toolVars, gestureVars, editVars>>

\* the timeout of openPDFEditor
SimulatedLoadDone(f) ==
    /\ f \in pendingLoads
    /\ pendingLoads' = pendingLoads \ {f}
    /\ pdfLoaded' = TRUE
    /\ UNCHANGED <<clock, procVars, srvVars, renderVars, pdfLibLoaded, selectedFile, pdfPages, pdfDocRef, errorMessage>>
    /\ UNCHANGED <<viewVars, toolVars, gestureVars, editVars, histVars>>

\* the page is drawn once the simulated load is over
ViewerShown == selectedFile # None /\ pdfLoaded

\* a tool button of PDFEditor
SetSelectedTool(t) ==
    /\ selectedFile # None
    /\ selectedTool' = t
    /\ UNCHANGED <<selectedColor, fontSize>>
    /\ UNCHANGED <<clock, procVars, srvVars, renderVars, docVars, viewVars, gestureVars, editVars, histVars>>

\* a button of the page list of PDFEditor
SetCurrentPage(n) ==
    /\ selectedFile # None
    /\ n \in DOMAIN pdfPages
    /\ currentPage' = pdfPages[n].pageNumber
    /\ UNCHANGED <<zoomLevel, pageRotation>>
    /\ UNCHANGED <<clock, procVars, srvVars, renderVars, docVars, toolVars, gestureVars, editVars, histVars>>

\* addAnnotation of page.tsx: the id is the clock reading alone
AddAnnotationAt(prev, annotation, now) ==
    Append(prev, [annotation EXCEPT !.id = <<"", now>>])

\* handleCanvasClick; input is what prompt() returns
HandleCanvasClick(x, y, input) ==
    /\ ViewerShown
    /\ annotations' =
          CASE selectedTool = "text" /\ input # None /\ input[1] # "" ->
                  AddAnnotationAt(annotations,
                      Annotation(None, "text", x, y, TextWidth(input[1], fontSize),
                                 TextHeight(fontSize), input, selectedColor,
                                 Some(fontSize), currentPage, None, None), clock)
            [] selectedTool = "highlight" ->
                  AddAnnotationAt(annotations,
                      Annotation(None, "highlight", x, y, Px(150), Px(20), None,
                                 selectedColor, None, currentPage, None, None), clock)
            [] selectedTool = "rectangle" ->
                  AddAnnotationAt(annotations,
                      Annotation(None, "rectangle", x, y, Px(100), Px(60), None,
                                 selectedColor, None, currentPage, None, None), clock)
            [] selectedTool = "circle" ->
                  AddAnnotationAt(annotations,
                      Annotation(None, "circle", x, y, Px(80), Px(80), None,
                                 selectedColor, None, currentPage, None, None), clock)
            [] OTHER -> annotations
    /\ UNCHANGED <<history, historyIndex, historyTimer, nextId>>
    /\ UNCHANGED <<clock, procVars, srvVars, renderVars, docVars, viewVars, toolVars, gestureVars, editVars>>

HandleMouseDown(x, y) ==
    /\ ViewerShown
    /\ IF selectedTool = "freehand"
       THEN isDrawing' = TRUE /\ startPos' = <<x, y>>
       ELSE UNCHANGED <<isDrawing, startPos>>
    /\ UNCHANGED drawingAnnotation
    /\ UNCHANGED <<clock, procVars, srvVars, renderVars, docVars, viewVars, toolVars, editVars, histVars>>

HandleMouseMove(x, y) ==
    /\ ViewerShown
    /\ IF isDrawing /\ selectedTool = "freehand"
       THEN /\ annotations' =
                  AddAnnotationAt(annotations,
                      Annotation(None, "freehand", startPos[1], startPos[2],
                                 Abs(x - startPos[1]), Abs(y - startPos[2]), None,
                                 selectedColor, None, currentPage, None, None), clock)
            /\ startPos' = <<x, y>>
       ELSE UNCHANGED <<annotations, startPos>>
    /\ UNCHANGED <<isDrawing, drawingAnnotation>>
    /\ UNCHANGED <<history, historyIndex, historyTimer, nextId>>
    /\ UNCHANGED <<clock, procVars, srvVars, renderVars, docVars, viewVars, toolVars, editVars>>

\* handleMouseUp (onMouseUp and onMouseLeave)
HandleMouseUp ==
    /\ ViewerShown
    /\ isDrawing' = FALSE
    /\ UNCHANGED <<startPos, drawingAnnotation>>
    /\ UNCHANGED <<clock, procVars, srvVars, renderVars, docVars, viewVars, toolVars, editVars, histVars>>

\* the delete button of an annotation of the page shown
DeleteAnnotation(annotationId) ==
    /\ ViewerShown
    /\ LET pageAnnotations == AnnotationsForPage(annotations, currentPage) IN
       \E i \in DOMAIN pageAnnotations : pageAnnotations[i].id = annotationId
    /\ annotations' = RemoveAnnotationFrom(annotations, annotationId)
    /\ UNCHANGED <<history, historyIndex, historyTimer, nextId>>
    /\ UNCHANGED <<clock, procVars, srvVars, renderVars, docVars, viewVars, toolVars, gestureVars, editVars>>

----------------------------------------------------------------------------
(* Simulated processing in the client: processFiles of src/app/page.tsx and  *)
(* processWithTool of src/unnamed/part_000. Both keep fileOperations and      *)
(* isLoading; a call runs one timer step at a time.                           *)

editorVars == <<renderVars, docVars, viewVars, toolVars, gestureVars, editVars, histVars>>

\* operations a free-plan user may have before processFiles refuses
FreeLimit == 3

PremiumOperations == {"ocr", "batch-convert", "advanced-edit", "digital-signature"}

\* steps of the progress loop, i = 0 .. steps
FilesSteps == 20
ToolSteps == 10

\* the FileOperation a call creates
NewOperation(id, fileName, operation) ==
    [id |-> id, fileName |-> fileName, operation |-> operation, status |-> "processing",
     progress |-> 0, downloadUrl |-> None]

\* progress counted down from 100
ProgressAtFalling(i, steps) == 100 - (i * 100) \div steps

\* (i / steps) * 100
ProgressAt(i, steps) == (i * 100) \div steps

\* prev.map((op) => (op.id === id ? { ...op, progress } : op))
WithProgress(prev, id, progress) ==
    [k \in DOMAIN prev |->
        IF prev[k].id = id THEN [prev[k] EXCEPT !.progress = progress] ELSE prev[k]]

\* prev.map(...) that marks the operation completed
WithCompleted(prev, id) ==
    [k \in DOMAIN prev |->
        IF prev[k].id = id
        THEN [prev[k] EXCEPT !.status = "completed", !.progress = 100,
                             !.downloadUrl = Some(<<"#download-", id>>)]
        ELSE prev[k]]

IsFree(u) == u # None /\ u[1].plan = "free"

\* the early returns of processFiles all passed
ProcessFilesAccepts(operation) ==
    /\ Len(selectedFiles) > 0
    /\ ~(operation = "merge" /\ Len(selectedFiles) < 2)
    /\ ~(operation \in PremiumOperations /\ (user = None \/ IsFree(user)))
    /\ ~(IsFree(user) /\ Len(fileOperations) >= FreeLimit)

\* processFiles up to the first await: the record of the first file is created
ProcessFiles(operation) ==
    /\ ~isLoading
    /\ Len(selectedFiles) > 0
    /\ IF ProcessFilesAccepts(operation)
       THEN /\ isLoading' = TRUE
            /\ fileOperations' =
                    <<NewOperation(nextOpId, selectedFiles[1], operation)>> \o fileOperations
            /\ job' = Some([component |-> "files", operation |-> operation,
                            files |-> Tail(selectedFiles), id |-> nextOpId, i |-> 0,
                            steps |-> FilesSteps])
            /\ nextOpId' = nextOpId + 1
       ELSE UNCHANGED <<isLoading, fileOperations, job, nextOpId>>
    /\ UNCHANGED <<user, selectedFiles>>
    /\ UNCHANGED <<clock, srvVars, editorVars>>

\* processWithTool up to the first await
ProcessWithTool(operation) ==
    /\ ~isLoading
    /\ selectedFile # None
    /\ IF operation # "merge"
       THEN /\ isLoading' = TRUE
            /\ fileOperations' =
                    <<NewOperation(nextOpId, selectedFile[1], operation)>> \o fileOperations
            /\ job' = Some([component |-> "tool", operation |-> operation,
                            files |-> << >>, id |-> nextOpId, i |-> 0, steps |-> ToolSteps])
            /\ nextOpId' = nextOpId + 1
       ELSE UNCHANGED <<isLoading, fileOperations, job, nextOpId>>
    /\ UNCHANGED <<user, selectedFiles>>
    /\ UNCHANGED <<clock, srvVars, editorVars>>

\* One timer of the progress loop has resolved. After the last step the
\* operation is completed and the call goes on to its next file or returns
\* through finally.
ProcessStep ==
    /\ job # None
    /\ LET j == job[1]
           stepped == WithProgress(fileOperations, j.id, ProgressAt(j.i, j.steps))
           completed == WithCompleted(stepped, j.id)
       IN IF j.i < j.steps
          THEN /\ fileOperations' = stepped
               /\ job' = Some([j EXCEPT !.i = j.i + 1])
               /\ UNCHANGED <<isLoading, selectedFiles, nextOpId>>
          ELSE IF j.files # << >>
               THEN /\ fileOperations' =
                            <<NewOperation(nextOpId, j.files[1], j.operation)>> \o completed
                    /\ job' = Some([j EXCEPT !.files = Tail(j.files), !.id = nextOpId, !.i = 0])
                    /\ nextOpId' = nextOpId + 1
                    /\ UNCHANGED <<isLoading, selectedFiles>>
               ELSE /\ fileOperations' = completed
                    /\ job' = None
                    /\ isLoading' = FALSE
                    /\ selectedFiles' = IF j.component = "files" THEN << >> ELSE selectedFiles
                    /\ UNCHANGED nextOpId
    /\ UNCHANGED user
    /\ UNCHANGED <<clock, srvVars, editorVars>>

\* a statement of the try block throws: catch, then finally
ProcessThrows ==
    /\ job # None
    /\ job' = None
    /\ isLoading' = FALSE
    /\ errorMessage' = IF job[1].component = "tool"
                       THEN Some(<<"Error processing file with operation: ", job[1].operation>>)
                       ELSE errorMessage
    /\ UNCHANGED <<user, selectedFiles, fileOperations, nextOpId>>
    /\ UNCHANGED <<pdfLibLoaded, selectedFile, pendingLoads, pdfLoaded, pdfPages, pdfDocRef>>
    /\ UNCHANGED <<clock, srvVars, renderVars, viewVars, toolVars, gestureVars, editVars, histVars>>

\* addFiles with valid files
AddFiles(files) ==
    /\ Len(files) > 0
    /\ selectedFiles' = selectedFiles \o files
    /\ UNCHANGED <<user, fileOperations, isLoading, job, nextOpId>>
    /\ UNCHANGED <<clock, srvVars, editorVars>>

\* handleSubmit of the sign-in form: the account it creates is on the free plan
SignIn ==
    /\ ~isLoading
    /\ user' = Some([plan |-> "free"])
    /\ UNCHANGED <<selectedFiles, fileOperations, isLoading, job, nextOpId>>
    /\ UNCHANGED <<clock, srvVars, editorVars>>

\* handleSignOut
SignOut ==
    /\ user # None
    /\ user' = None
    /\ UNCHANGED <<selectedFiles, fileOperations, isLoading, job, nextOpId>>
    /\ UNCHANGED <<clock, srvVars, editorVars>>

----------------------------------------------------------------------------
(* The server, src/unnamed/part_002: the processing route POST /api/pdf/edit  *)
(* with its middleware, the upload route, the cleanup and the two GET routes. *)
(* One signed-in account, one day.                                            *)

\* processing operations a free account may have used before a request is refused
DailyLimit == 3

\* a FileOperation document: status, the output file it points to, and
\* whether the document is still in the collection
ServerOperation(operation, status) ==
    [operation |-> operation, status |-> status, outputPath |-> FALSE, stored |-> TRUE]

\* a request arrives with a valid token
SrvArrive ==
    /\ srvReqs' = Append(srvReqs, [pc |-> "check", op |-> 0])
    /\ UNCHANGED <<srvUser, srvOps, srvTimers, srvResponse>>
    /\ UNCHANGED <<clock, procVars, editorVars>>

\* checkUsageLimits: the request reads the account and is refused with 429
\* or passed on to the route
SrvCheckUsageLimits(r) ==
    /\ r \in DOMAIN srvReqs
    /\ srvReqs[r].pc = "check"
    /\ srvReqs' = [srvReqs EXCEPT ![r].pc =
                       IF srvUser.plan = "free" /\ srvUser.dailyUsage >= DailyLimit
                       THEN "refused" ELSE "route"]
    /\ UNCHANGED <<srvUser, srvOps, srvTimers, srvResponse>>
    /\ UNCHANGED <<clock, procVars, editorVars>>

\* the route up to the end of fileOperation.save()
SrvSaveOperation(r) ==
    /\ r \in DOMAIN srvReqs
    /\ srvReqs[r].pc = "route"
    /\ srvOps' = Append(srvOps, ServerOperation("edit", "processing"))
    /\ srvReqs' = [srvReqs EXCEPT ![r] = [pc |-> "saved", op |-> Len(srvOps) + 1]]
    /\ UNCHANGED <<srvUser, srvTimers, srvResponse>>
    /\ UNCHANGED <<clock, procVars, editorVars>>

\* the rest of the route: $inc of the usage counters, setTimeout, response
SrvIncrementUsage(r) ==
    /\ r \in DOMAIN srvReqs
    /\ srvReqs[r].pc = "saved"
    /\ srvUser' = [srvUser EXCEPT !.dailyUsage = srvUser.dailyUsage + 1]
    /\ srvTimers' = srvTimers \cup {srvReqs[r].op}
    /\ srvReqs' = [srvReqs EXCEPT ![r].pc = "answered"]
    /\ UNCHANGED <<srvOps, srvResponse>>
    /\ UNCHANGED <<clock, procVars, editorVars>>

\* the timer callback, try block: the output file is written and the
\* operation is marked completed
SrvTimerCompletes(id) ==
    /\ id \in srvTimers
    /\ srvTimers' = srvTimers \ {id}
    /\ srvOps' = [srvOps EXCEPT ![id].status = "completed", ![id].outputPath = TRUE]
    /\ UNCHANGED <<srvUser, srvReqs, srvResponse>>
    /\ UNCHANGED <<clock, procVars, editorVars>>

\* the timer callback, catch block: writing the output file threw
SrvTimerFails(id) ==
    /\ id \in srvTimers
    /\ srvTimers' = srvTimers \ {id}
    /\ srvOps' = [srvOps EXCEPT ![id].status = "failed"]
    /\ UNCHANGED <<srvUser, srvReqs, srvResponse>>
    /\ UNCHANGED <<clock, procVars, editorVars>>

\* POST /api/files/upload: the document is created completed, without an
\* output file
SrvUpload ==
    /\ srvOps' = Append(srvOps, ServerOperation("upload", "completed"))
    /\ UNCHANGED <<srvUser, srvReqs, srvTimers, srvResponse>>
    /\ UNCHANGED <<clock, procVars, editorVars>>

\* cleanupOldFiles for an operation older than a day: the output file and
\* the document are deleted
SrvCleanup(id) ==
    /\ id \in DOMAIN srvOps
    /\ srvOps[id].stored
    /\ id \notin srvTimers
    /\ srvOps' = [srvOps EXCEPT ![id].outputPath = FALSE, ![id].stored = FALSE]
    /\ UNCHANGED <<srvUser, srvReqs, srvTimers, srvResponse>>
    /\ UNCHANGED <<clock, procVars, editorVars>>

\* the answer of GET /api/download/:operationId
DownloadResult(ops, id) ==
    IF id \notin DOMAIN ops \/ ~ops[id].stored THEN "404 Operation not found"
    ELSE IF ops[id].status # "completed" THEN "400 File not ready for download"
    ELSE IF ~ops[id].outputPath THEN "404 File not found"
    ELSE "file"

\* a status answer that always carries the download URL
StatusResultAlways(ops, id) ==
    IF id \notin DOMAIN ops \/ ~ops[id].stored
    THEN [code |-> 404, status |-> "none", downloadUrl |-> None]
    ELSE [code |-> 200, status |-> ops[id].status, downloadUrl |-> Some(<<"/api/download/", id>>)]

\* the answer of GET /api/operation/:operationId
StatusResult(ops, id) ==
    IF id \notin DOMAIN ops \/ ~ops[id].stored
    THEN [code |-> 404, status |-> "none", downloadUrl |-> None]
    ELSE [code |-> 200, status |-> ops[id].status,
          downloadUrl |-> IF ops[id].status = "completed"
                          THEN Some(<<"/api/download/", id>>) ELSE None]

SrvDownload(id) ==
    /\ srvResponse' = Some([route |-> "download", id |-> id, result |-> DownloadResult(srvOps, id)])
    /\ UNCHANGED <<srvUser, srvOps, srvReqs, srvTimers>>
    /\ UNCHANGED <<clock, procVars, editorVars>>

SrvOperationStatus(id) ==
    /\ srvResponse' = Some([route |-> "operation", id |-> id, result |-> StatusResult(srvOps, id)])
    /\ UNCHANGED <<srvUser, srvOps, srvReqs, srvTimers>>
    /\ UNCHANGED <<clock, procVars, editorVars>>

----------------------------------------------------------------------------
(* Observers *)

\* What a step was, from the handler that ran and what it did:
\* "commit" (the committed list was changed by a gesture), "undo" and "redo"
\* (in bounds), "undoNoop" and "redoNoop" (out of bounds), "reset" (a file was
\* selected or removed), "stale" (a file was selected and the pending history
\* timer fired on top of the reset), "timer" (the history timer fired), "other".
Kind(op) ==
    CASE op \in {"gesture", "release"} -> IF annotations' # annotations THEN "commit" ELSE "other"
      [] op = "undo" -> IF UndoAllowed(historyIndex) THEN "undo" ELSE "undoNoop"
      [] op = "redo" -> IF RedoAllowed(historyIndex, Len(history)) THEN "redo" ELSE "redoNoop"
      [] OTHER -> op

LastOpAfter(k) == IF k \in {"timer", "other"} THEN lastOp ELSE k

RtStart == [phase |-> "commit", k |-> 0, target |-> << >>, undos |-> 0, redos |-> 0]
RtVoid == [phase |-> "void", k |-> 0, target |-> << >>, undos |-> 0, redos |-> 0]

\* k commits reaching the list target, then k calls of undo, then k calls of redo
RtAfter(k) ==
    CASE k = "reset" -> RtStart
      [] k = "stale" -> RtVoid
      [] k = "commit" ->
            IF rt.phase = "commit"
            THEN [rt EXCEPT !.k = rt.k + 1, !.target = annotations']
            ELSE RtVoid
      [] k \in {"undo", "undoNoop"} ->
            IF rt.phase \in {"commit", "undo"} /\ rt.undos < rt.k
            THEN [rt EXCEPT !.phase = "undo", !.undos = rt.undos + 1]
            ELSE RtVoid
      [] k \in {"redo", "redoNoop"} ->
            IF rt.phase \in {"undo", "redo"} /\ rt.undos = rt.k /\ rt.redos < rt.k
            THEN [rt EXCEPT !.phase = "redo", !.redos = rt.redos + 1]
            ELSE RtVoid
      [] OTHER -> rt

\* only commits so far in the session
PlainAfter(k) ==
    CASE k = "reset" -> RtStart
      [] k \in {"undo", "redo", "stale"} -> RtVoid
      [] OTHER -> rt

\* an in-bounds undo went to index at ("undone"), then a commit followed
\* ("committed"), then the history timer fired ("recorded")
BranchAfter(k) ==
    CASE k = "undo" -> Some([at |-> historyIndex', state |-> "undone"])
      [] k = "commit" -> IF branch # None /\ branch[1].state \in {"undone", "committed"}
                         THEN Some([branch[1] EXCEPT !.state = "committed"])
                         ELSE None
      [] k = "timer" -> IF branch # None /\ branch[1].state = "committed"
                        THEN Some([branch[1] EXCEPT !.state = "recorded"])
                        ELSE IF branch # None /\ branch[1].state = "recorded"
                             THEN None
                             ELSE branch
      [] k \in {"redo", "reset", "stale"} -> None
      [] OTHER -> branch

\* the steps of the renderer a user takes: a file chosen or removed, a tool
\* or page button, a viewport button
UserOps == {"switch", "remove", "tool", "view"}

\* the bounds of a run
HistoryBound == IF obsMode = "branch" THEN MaxHistoryBranch ELSE MaxHistory

Bounded ==
    /\ Len(fileOperations') <= MaxOperations
    /\ Len(selectedFiles') <= MaxSelected
    /\ nextId' <= MaxId
    /\ Len(annotations') <= MaxId
    /\ Len(history') <= HistoryBound

\* The observers a specification runs (obsMode is fixed by its initial state):
\* "op" the last operation that was not a timer or a step without effect on
\* the committed list; "draw" the very last step, a pointer release or pointer
\* leave being "release" and the removal of an annotation "remove" where a
\* specification tells them apart; "log" the commits and the timer firings of a
\* session, as long as it has seen no undo or redo; "trip" a run of commits, undos and redos; "branch" an undo followed
\* by a commit; "latest" a user who stops after MaxChanges actions. failures
\* counts the paints that failed since the last step that was not the
\* renderer's.
Observe(op) ==
    LET k == Kind(op) IN
    /\ Bounded
    /\ UNCHANGED obsMode
    /\ lastOp' = IF obsMode = "draw"
                 THEN IF op = "release" THEN "release" ELSE k
                 ELSE LastOpAfter(k)
    /\ IF obsMode = "log" /\ PlainAfter(k).phase = "commit"
       THEN /\ k = "timer" => pushes < MaxPushes
            /\ commitLog' = CASE k = "commit" -> Append(commitLog, annotations')
                              [] k = "reset" -> << >>
                              [] OTHER -> commitLog
            /\ pushes' = CASE k = "timer" -> pushes + 1
                           [] k = "reset" -> 0
                           [] OTHER -> pushes
            /\ recorded' = CASE k = "commit" -> FALSE
                             [] k \in {"timer", "reset"} -> TRUE
                             [] OTHER -> recorded
       ELSE UNCHANGED <<commitLog, pushes, recorded>>
    /\ rt' = CASE obsMode = "trip" -> RtAfter(k)
               [] obsMode = "log" -> PlainAfter(k)
               [] OTHER -> rt
    /\ branch' = IF obsMode = "branch" THEN BranchAfter(k) ELSE branch
    /\ failures' = CASE op = "renderFail" -> Min(failures + 1, 2)
                      [] op \in {"renderStart", "renderPage"} -> failures
                      [] OTHER -> 0
    /\ IF obsMode = "latest" /\ op \in UserOps
       THEN changes < MaxChanges /\ changes' = changes + 1
       ELSE UNCHANGED changes

----------------------------------------------------------------------------
(* Specifications: one editing session on one document. Annotations are      *)
(* committed with the text tool and with a shape tool, removed with the      *)
(* select tool, and the history is stepped through with undo and redo.       *)

\* where the pointer goes down and where it is dragged to
DownPoint == <<Px(10), Px(10)>>
DragPoint == <<Px(60), Px(40)>>

SpecFiles == {"a.pdf"}
SpecTools == {"select", "text", "rectangle"}

Next ==
    \/ PdfLibLoaded /\ Observe("other")
    \/ \E f \in SpecFiles : FileSelect(f) /\ Observe("reset")
    \/ \E f \in SpecFiles : FileSelectStaleTimer(f) /\ Observe("stale")
    \/ \E f \in SpecFiles : LoadDone(f) /\ Observe("other")
    \/ \E f \in SpecFiles : LoadFail(f) /\ Observe("other")
    \/ RemoveFile /\ Observe("reset")
    \/ \E t \in SpecTools : SelectTool(t) /\ Observe("other")
    \/ MouseDownSelect /\ Observe("other")
    \/ MouseDownText(DownPoint[1], DownPoint[2], None) /\ Observe("gesture")
    \/ MouseDownText(DownPoint[1], DownPoint[2], Some("hi")) /\ Observe("gesture")
    \/ MouseDownShape(DownPoint[1], DownPoint[2]) /\ Observe("gesture")
    \/ MouseMoveShape(DragPoint[1], DragPoint[2]) /\ Observe("gesture")
    \/ MouseUp /\ Observe("gesture")
    \/ \E i \in 0..(MaxId - 1) : RemoveAnnotation(<<"", i>>) /\ Observe("gesture")
    \/ HistoryTimerFire /\ Observe("timer")
    \/ Undo /\ Observe("undo")
    \/ Redo /\ Observe("redo")

\* the session, observing the last operation
InitOp == Init /\ obsMode = "op"
Spec == InitOp /\ [][Next]_vars

\* the session, observing its commits and timer firings
InitLog == Init /\ obsMode = "log"
SpecLog == InitLog /\ [][Next]_vars

\* the session, observing runs of commits, undos and redos
InitTrip == Init /\ obsMode = "trip"
SpecTrip == InitTrip /\ [][Next]_vars

\* the session, observing an undo followed by a commit
InitBranch == Init /\ obsMode = "branch"
SpecBranch == InitBranch /\ [][Next]_vars

----------------------------------------------------------------------------
(* Specification: drawing on the first page at 100% zoom. Boxes are          *)
(* dragged from two start points to four end points, in every direction and  *)
(* below and above the minimum size; text is placed with a prompt that is    *)
(* answered, answered with blanks, or cancelled.                             *)

DownPoints == {<<Px(10), Px(10)>>, <<Px(50), Px(50)>>}
MovePoints == {<<Px(60), Px(40)>>, <<Px(20), Px(80)>>, <<Px(16), Px(10)>>, <<Px(15), Px(15)>>}
PromptInputs == {None, Some("hi"), Some(" ")}
DrawTools == {"select", "text", "rectangle"}

NextDraw ==
    \/ PdfLibLoaded /\ Observe("other")
    \/ \E f \in SpecFiles : FileSelect(f) /\ Observe("reset")
    \/ \E f \in SpecFiles : LoadDone(f) /\ Observe("other")
    \/ \E t \in DrawTools : SelectTool(t) /\ Observe("other")
    \/ \E p \in DownPoints, t \in PromptInputs : MouseDownText(p[1], p[2], t) /\ Observe("gesture")
    \/ \E p \in DownPoints : MouseDownShape(p[1], p[2]) /\ Observe("gesture")
    \/ \E p \in MovePoints : MouseMoveShape(p[1], p[2]) /\ Observe("gesture")
    \/ MouseUp /\ Observe("release")
    \/ \E i \in 0..(MaxId - 1) : RemoveAnnotation(<<"", i>>) /\ Observe("gesture")

InitDraw == Init /\ obsMode = "draw"
SpecDraw == InitDraw /\ [][NextDraw]_vars

----------------------------------------------------------------------------
(* Specification: annotating the first page at every zoom level, with the    *)
(* text tool, a shape tool and the tool that edits a text fragment of the    *)
(* page.                                                                     *)

ZoomTools == {"text", "editText", "rectangle"}
EditedTexts == {"Bye"}

NextZoom ==
    \/ PdfLibLoaded /\ Observe("other")
    \/ \E f \in SpecFiles : FileSelect(f) /\ Observe("reset")
    \/ \E f \in SpecFiles : LoadDone(f) /\ Observe("other")
    \/ \E t \in ZoomTools : SelectTool(t) /\ Observe("other")
    \/ ZoomIn /\ Observe("other")
    \/ ZoomOut /\ Observe("other")
    \/ MouseDownText(DownPoint[1], DownPoint[2], Some("hi")) /\ Observe("gesture")
    \/ MouseDownEditText(DownPoint[1], DownPoint[2]) /\ Observe("gesture")
    \/ \E t \in EditedTexts : TextEditSave(t) /\ Observe("gesture")
    \/ TextEditCancel /\ Observe("other")
    \/ MouseDownShape(DownPoint[1], DownPoint[2]) /\ Observe("gesture")
    \/ MouseMoveShape(DragPoint[1], DragPoint[2]) /\ Observe("gesture")
    \/ MouseUp /\ Observe("release")

InitZoom == Init /\ obsMode = "draw"
SpecZoom == InitZoom /\ [][NextZoom]_vars

----------------------------------------------------------------------------
(* Specification: text annotations of two font sizes on the two pages of a   *)
(* document, placed with the text tool and removed with the select tool.     *)

PagesTools == {"select", "text"}
PagesTexts == {"hi", "abc"}
PagesFontSizes == {16, 12}

NextPages ==
    \/ PdfLibLoaded /\ Observe("other")
    \/ \E f \in SpecFiles : FileSelect(f) /\ Observe("reset")
    \/ \E f \in SpecFiles : LoadDone(f) /\ Observe("other")
    \/ \E t \in PagesTools : SelectTool(t) /\ Observe("other")
    \/ \E v \in PagesFontSizes : SetFontSize(v) /\ Observe("other")
    \/ \E n \in 1..2 : SetPage(n) /\ Observe("other")
    \/ \E t \in PagesTexts : MouseDownText(DownPoint[1], DownPoint[2], Some(t)) /\ Observe("gesture")
    \/ \E i \in 0..(MaxId - 1) : RemoveAnnotation(<<"", i>>) /\ Observe("remove")

InitPages == Init /\ obsMode = "draw"
SpecPages == InitPages /\ [][NextPages]_vars

----------------------------------------------------------------------------
(* Specification: the editor of src/app/page.tsx, drawing freehand strokes   *)
(* and fixed-size rectangles while the clock runs.                           *)

AppTools == {"select", "rectangle", "freehand"}
AppPoints == {<<Px(10), Px(10)>>, <<Px(12), Px(11)>>}

NextApp ==
    \/ Tick /\ Observe("other")
    \/ \E f \in SpecFiles : OpenPDFEditor(f) /\ Observe("reset")
    \/ \E f \in SpecFiles : SimulatedLoadDone(f) /\ Observe("other")
    \/ \E t \in AppTools : SetSelectedTool(t) /\ Observe("other")
    \/ \E n \in 1..2 : SetCurrentPage(n) /\ Observe("other")
    \/ HandleCanvasClick(DownPoint[1], DownPoint[2], None) /\ Observe("gesture")
    \/ \E p \in AppPoints : HandleMouseDown(p[1], p[2]) /\ Observe("gesture")
    \/ \E p \in AppPoints : HandleMouseMove(p[1], p[2]) /\ Observe("gesture")
    \/ HandleMouseUp /\ Observe("release")
    \/ \E i \in 0..MaxClock : DeleteAnnotation(<<"", i>>) /\ Observe("remove")

InitApp == Init /\ obsMode = "draw"
SpecApp == InitApp /\ [][NextApp]_vars

----------------------------------------------------------------------------
(* Specification: editing the text fragment of the first page at every zoom  *)
(* level; the press hits the fragment up to 150% and misses it above.        *)

SavedTexts == {"Bye", ""}

NextEdit ==
    \/ PdfLibLoaded /\ Observe("other")
    \/ \E f \in SpecFiles : FileSelect(f) /\ Observe("reset")
    \/ \E f \in SpecFiles : LoadDone(f) /\ Observe("other")
    \/ SelectTool("editText") /\ Observe("other")
    \/ ZoomIn /\ Observe("other")
    \/ ZoomOut /\ Observe("other")
    \/ MouseDownEditText(DownPoint[1], DownPoint[2]) /\ Observe("press")
    \/ \E t \in SavedTexts : TextEditSave(t) /\ Observe("gesture")
    \/ TextEditCancel /\ Observe("cancel")

InitEdit == Init /\ obsMode = "draw"
SpecEdit == InitEdit /\ [][NextEdit]_vars

----------------------------------------------------------------------------
(* Specification: freehand strokes on the first page: presses, moves with    *)
(* and without a gesture, releases.                                          *)

FreeTools == {"select", "freehand"}

NextFree ==
    \/ PdfLibLoaded /\ Observe("other")
    \/ \E f \in SpecFiles : FileSelect(f) /\ Observe("reset")
    \/ \E f \in SpecFiles : LoadDone(f) /\ Observe("other")
    \/ \E t \in FreeTools : SelectTool(t) /\ Observe("other")
    \/ \E p \in DownPoints : MouseDownFreehand(p[1], p[2]) /\ Observe("press")
    \/ \E p \in MovePoints : MouseMove(p[1], p[2]) /\ Observe("move")
    \/ MouseUp /\ Observe("release")
    \/ \E i \in 0..(MaxId - 1) : RemoveAnnotation(<<"", i>>) /\ Observe("remove")

InitFree == Init /\ obsMode = "draw"
SpecFree == InitFree /\ [][NextFree]_vars

----------------------------------------------------------------------------
(* Specification: the renderer under two documents, viewport buttons, tool   *)
(* buttons, timers, and paints that complete or fail in any order.           *)

RenderFiles == {"a.pdf", "b.pdf"}
RenderTools == {"select"}

NextRender ==
    \/ PdfLibLoaded /\ Observe("other")
    \/ \E f \in RenderFiles : FileSelect(f) /\ Observe("switch")
    \/ \E f \in RenderFiles : LoadDone(f) /\ Observe("load")
    \/ RemoveFile /\ Observe("remove")
    \/ \E t \in RenderTools : SelectTool(t) /\ Observe("tool")
    \/ ZoomOut /\ Observe("view")
    \/ ZoomReset /\ Observe("view")
    \/ \E n \in 1..2 : SetPage(n) /\ Observe("view")
    \/ RenderTimerFire /\ Observe("renderStart")
    \/ RenderRejectedAtOnce /\ Observe("renderFail")
    \/ \E i \in 1..2 : RenderGotPage(i) /\ Observe("renderPage")
    \/ \E i \in 1..2 : RenderDone(i) /\ Observe("renderDone")
    \/ \E i \in 1..2 : RenderFail(i) /\ Observe("renderFail")

InitRender == Init /\ obsMode = "draw"
SpecRender == InitRender /\ [][NextRender]_vars

----------------------------------------------------------------------------
(* Specification: one document whose paints complete; the user changes page, *)
(* zoom and rotation, presses tool buttons, and stops after MaxChanges       *)
(* actions. Timers fire and pdf.js answers: weak fairness on those steps.    *)

LatestFiles == {"a.pdf"}

StepLoadDone == \E f \in LatestFiles : LoadDone(f) /\ Observe("load")
StepRenderTimer == RenderTimerFire /\ Observe("renderStart")
StepRenderGotPage == \E i \in 1..2 : RenderGotPage(i) /\ Observe("renderPage")
StepRenderDone == \E i \in 1..2 : RenderDone(i) /\ Observe("renderDone")

NextLatest ==
    \/ PdfLibLoaded /\ Observe("other")
    \/ \E f \in LatestFiles : FileSelect(f) /\ Observe("switch")
    \/ StepLoadDone
    \/ \E t \in RenderTools : SelectTool(t) /\ Observe("tool")
    \/ ZoomIn /\ Observe("view")
    \/ RotatePage /\ Observe("view")
    \/ \E n \in 1..2 : SetPage(n) /\ Observe("view")
    \/ StepRenderTimer
    \/ StepRenderGotPage
    \/ StepRenderDone

InitLatest == Init /\ obsMode = "latest"
SpecLatest ==
    /\ InitLatest
    /\ [][NextLatest]_vars
    /\ WF_vars(StepLoadDone)
    /\ WF_vars(StepRenderTimer)
    /\ WF_vars(StepRenderGotPage)
    /\ WF_vars(StepRenderDone)

----------------------------------------------------------------------------
(* Specification: the viewport over document loads: zoom, rotation and page  *)
(* buttons, the font size slider, files selected, loaded and removed.        *)

ViewFontSizes == {FontSizeMin, 16, FontSizeMax}

NextView ==
    \/ PdfLibLoaded /\ Observe("other")
    \/ \E f \in SpecFiles : FileSelect(f) /\ Observe("switch")
    \/ \E f \in SpecFiles : LoadDone(f) /\ Observe("load")
    \/ RemoveFile /\ Observe("remove")
    \/ ZoomIn /\ Observe("zoomIn")
    \/ ZoomOut /\ Observe("zoomOut")
    \/ ZoomReset /\ Observe("zoomReset")
    \/ RotatePage /\ Observe("rotate")
    \/ \E n \in 1..2 : SetPage(n) /\ Observe("page")
    \/ \E v \in ViewFontSizes : SetFontSize(v) /\ Observe("font")

InitView == Init /\ obsMode = "draw"
SpecView == InitView /\ [][NextView]_vars

----------------------------------------------------------------------------
(* Specification: the Rotate button among text annotations, the history      *)
(* timer, undo and redo.                                                     *)

NextRotate ==
    \/ PdfLibLoaded /\ Observe("other")
    \/ \E f \in SpecFiles : FileSelect(f) /\ Observe("reset")
    \/ \E f \in SpecFiles : LoadDone(f) /\ Observe("other")
    \/ SelectTool("text") /\ Observe("other")
    \/ MouseDownText(DownPoint[1], DownPoint[2], Some("hi")) /\ Observe("gesture")
    \/ HistoryTimerFire /\ Observe("timer")
    \/ Undo /\ Observe("undo")
    \/ Redo /\ Observe("redo")
    \/ RotatePage /\ Observe("rotate")

InitRotate == Init /\ obsMode = "draw"
SpecRotate == InitRotate /\ [][NextRotate]_vars

----------------------------------------------------------------------------
(* Claims about the history *)

\* C1 (as claimed): History monotonicity. In a session of N commits and no undo
\* or redo, once the history timer has fired after the last commit,
\* historyIndex = N, the history has N + 1 entries and its first entry is the
\* empty list.
C1_HistoryMonotonicity ==
    (rt.phase = "commit" /\ recorded) =>
        /\ historyIndex = Len(commitLog)
        /\ Len(history) = Len(commitLog) + 1
        /\ history[1].annotations = << >>

\* C2 (as claimed): an in-bounds undo or redo creates no history entry. While the
\* last operation is an in-bounds undo or redo, that operation and every timer
\* that fires after it leave the entries of the history as they were.
C2_UndoRedoKeepHistory ==
    [][lastOp' \in {"undo", "redo"} => history' = history]_vars

\* C3 (as claimed): undo/redo round trip. After k commits reaching the list S, k
\* calls of undo and then k calls of redo, the live annotation list is S again,
\* whenever the history timer fired in between.
C3_RoundTrip ==
    (rt.phase = "redo" /\ rt.undos = rt.k /\ rt.redos = rt.k) =>
        annotations = rt.target

\* C4 (as claimed): branch truncation. After an undo to index i and then a commit,
\* once that commit is recorded the history has exactly i + 2 entries and
\* historyIndex = i + 1.
C4_BranchTruncation ==
    (branch # None /\ branch[1].state = "recorded") =>
        /\ Len(history) = branch[1].at + 2
        /\ historyIndex = branch[1].at + 1

\* C5 (as claimed): every commit produces exactly one history entry. In a session
\* of commits (no undo or redo) the history timer never fires more often than
\* there were commits, and when no timer is pending it has fired once per commit.
C5_OneEntryPerCommit ==
    rt.phase = "commit" =>
        /\ pushes <= Len(commitLog)
        /\ historyTimer = None => pushes = Len(commitLog)

\* C6 (as claimed): in a session of commits (no undo or redo), entry j >= 1 of the
\* history is the committed list as it was right after the j-th commit.
C6_SnapshotsInCommitOrder ==
    rt.phase = "commit" =>
        \A j \in 1..(Len(history) - 1) :
            /\ j <= Len(commitLog)
            /\ history[j + 1].annotations = commitLog[j]

\* C7: in every reachable state the history index is within
\* [0, Len(history) - 1].
C7_IndexInBounds ==
    historyIndex \in 0..(Len(history) - 1)

\* C7 witness: the index is at neither end of a history of three entries.
C7_Witness ==
    /\ Len(history) = 3
    /\ historyIndex = 1

\* C8: the history is never empty and its first entry is the empty list, so an
\* undo that arrives at index 0 leaves the live annotation list empty.
C8_InitialEntry ==
    /\ Len(history) >= 1
    /\ history[1].annotations = << >>
    /\ (lastOp = "undo" /\ historyIndex = 0) => annotations = << >>

\* C8 witness: an undo went from the first recorded edit back to index 0.
C8_Witness ==
    /\ lastOp = "undo"
    /\ historyIndex = 0
    /\ Len(history) >= 2
    /\ history[2].annotations # << >>
    /\ annotations = << >>

\* C9: undo boundary. A call of undo at historyIndex = 0 is possible and changes
\* nothing: the index, the history, the live annotation list and the pending
\* history timer are as before.
C9_UndoBoundary ==
    [][(EditorShown /\ historyIndex = 0) =>
          /\ ENABLED Undo
          /\ Undo => UNCHANGED progVars]_vars

\* C9 witness: undo was called at index 0 while a commit was not yet recorded,
\* and the commit is still there.
C9_Witness ==
    /\ lastOp = "undoNoop"
    /\ historyIndex = 0
    /\ annotations # << >>
    /\ historyTimer # None

\* C10: redo boundary. A call of redo at historyIndex = Len(history) - 1 is
\* possible and changes nothing.
C10_RedoBoundary ==
    [][(EditorShown /\ historyIndex = Len(history) - 1) =>
          /\ ENABLED Redo
          /\ Redo => UNCHANGED progVars]_vars

\* C10 witness: redo was called at the tail of a history of several entries while
\* the live list differed from the tail entry.
C10_Witness ==
    /\ lastOp = "redoNoop"
    /\ Len(history) >= 2
    /\ historyIndex = Len(history) - 1
    /\ annotations # history[Len(history)].annotations

----------------------------------------------------------------------------
(* Claims about gestures *)

\* the last committed annotation
Last(anns) == anns[Len(anns)]

\* the step appended exactly one annotation
AppendedOne == Len(annotations') = Len(annotations) + 1
               /\ SubSeq(annotations', 1, Len(annotations)) = annotations

SameBox(a, d) == a.x = d.x /\ a.y = d.y /\ a.width = d.width /\ a.height = d.height

\* a stored length is the page length, at 100% zoom, of a length on the screen
OnPage(stored, onScreen) == stored * zoomLevel = onScreen * 100

\* C11: whatever the zoom level, a committed annotation holds page coordinates
\* at 100% zoom: the page point under the pointer for the text tool, the page
\* box under the dragged box for a shape, and the box of the text fragment,
\* as pdf.js gives it at scale 1, for a text edit.
C11_UnscaledGeometry ==
    [][/\ MouseDownText(DownPoint[1], DownPoint[2], Some("hi")) =>
             /\ OnPage(Last(annotations').x, DownPoint[1])
             /\ OnPage(Last(annotations').y, DownPoint[2])
       /\ (MouseUp /\ annotations' # annotations) =>
             /\ OnPage(Last(annotations').x, drawingAnnotation[1].x)
             /\ OnPage(Last(annotations').y, drawingAnnotation[1].y)
             /\ OnPage(Last(annotations').width, drawingAnnotation[1].width)
             /\ OnPage(Last(annotations').height, drawingAnnotation[1].height)
       /\ \A t \in EditedTexts :
             TextEditSave(t) => SameBox(Last(annotations'), selectedTextItem[1])]_vars

\* C12: releasing a shape gesture discards a pending box whose width and
\* height are both at most 5 pixels, and commits any other pending box (6 by 0
\* included) as exactly one annotation with that box.
C12_ShapeThreshold ==
    [][(MouseUp /\ isDrawing /\ drawingAnnotation # None) =>
          LET d == drawingAnnotation[1] IN
          IF d.width <= Px(5) /\ d.height <= Px(5)
          THEN annotations' = annotations
          ELSE /\ AppendedOne
               /\ Last(annotations').type = d.type
               /\ SameBox(Last(annotations'), d)]_vars

\* a box of 6 by 0 pixels was committed
C12_Witness ==
    \E i \in DOMAIN annotations :
        annotations[i].type = "rectangle" /\ annotations[i].width = Px(6) /\ annotations[i].height = 0

\* C13: a pointer move of a shape gesture started at s and now at c makes the
\* pending box x = min(s.x, c.x), y = min(s.y, c.y), width = |c.x - s.x|,
\* height = |c.y - s.y|, and the release commits that box.
C13_BoxNormalisation ==
    [][/\ \A c \in MovePoints :
             MouseMoveShape(c[1], c[2]) =>
                 LET d == drawingAnnotation'[1] IN
                 /\ d.x = Min(startPos[1], c[1])
                 /\ d.y = Min(startPos[2], c[2])
                 /\ d.width = Abs(c[1] - startPos[1])
                 /\ d.height = Abs(c[2] - startPos[2])
       /\ \A s \in DownPoints :
             MouseDownShape(s[1], s[2]) =>
                 startPos' = s /\ drawingAnnotation'[1].x = s[1] /\ drawingAnnotation'[1].y = s[2]
       /\ (MouseUp /\ annotations' # annotations) =>
                 SameBox(Last(annotations'), drawingAnnotation[1])]_vars

\* the rectangle dragged from (50,50) to (20,80) and the one dragged from
\* (10,10) to (60,40) are committed
C13_Witness ==
    /\ \E i \in DOMAIN annotations :
          SameBox(annotations[i], [x |-> Px(20), y |-> Px(50), width |-> Px(30), height |-> Px(30)])
    /\ \E i \in DOMAIN annotations :
          SameBox(annotations[i], [x |-> Px(10), y |-> Px(10), width |-> Px(50), height |-> Px(30)])

IsTemp(a) == a.id # None /\ a.id[1] = "temp-"

\* C14: the pending annotation of a shape gesture carries a temp- id, and no
\* annotation with a temp- id is in the committed list or in any history
\* entry: what a release commits is a copy with an id of its own.
C14_PendingOutside ==
    /\ drawingAnnotation # None => IsTemp(drawingAnnotation[1])
    /\ \A i \in DOMAIN annotations : ~IsTemp(annotations[i])
    /\ \A j \in DOMAIN history :
          \A i \in DOMAIN history[j].annotations : ~IsTemp(history[j].annotations[i])

\* a shape was committed and recorded, and the next gesture is pending
C14_Witness ==
    /\ drawingAnnotation # None
    /\ \E i \in DOMAIN annotations : annotations[i].type = "rectangle"
    /\ Len(history) >= 2
    /\ \E i \in DOMAIN history[2].annotations : history[2].annotations[i].type = "rectangle"

\* C15: after any pointer release or pointer leave, from any state, there is
\* no pending annotation and no gesture is active.
C15_ReleaseClears ==
    lastOp = "release" => (drawingAnnotation = None /\ isDrawing = FALSE)

\* C19: a pointer press with the text tool leaves no gesture active and no
\* pending annotation; it commits exactly one text annotation at the pointer
\* when the prompt returns text that is not blank, and otherwise changes
\* neither the committed list nor the error message.
C19_TextTool ==
    [][\A p \in DownPoints, t \in PromptInputs :
          MouseDownText(p[1], p[2], t) =>
              /\ isDrawing' = FALSE
              /\ drawingAnnotation' = None
              /\ errorMessage' = errorMessage
              /\ IF t = Some("hi")
                 THEN /\ AppendedOne
                      /\ Last(annotations').type = "text"
                      /\ Last(annotations').text = t
                      /\ Last(annotations').x = p[1]
                      /\ Last(annotations').y = p[2]
                 ELSE annotations' = annotations]_vars

----------------------------------------------------------------------------
(* Claims about the committed list *)

\* the indexes of the annotations of anns that sel accepts
Where(anns, sel(_)) == {i \in DOMAIN anns : sel(anns[i])}

\* sub holds the annotations of anns that sel accepts, and only them, in order
IsSelection(sub, anns, sel(_)) ==
    /\ Len(sub) = Cardinality(Where(anns, sel))
    /\ \A j \in DOMAIN sub : sel(sub[j])
    /\ \A i \in Where(anns, sel) :
          sub[Cardinality({k \in Where(anns, sel) : k <= i})] = anns[i]

\* C16: the overlay's filter returns exactly the committed annotations of the
\* page asked for, and a step that adds or removes an annotation on the page
\* shown leaves the result for every other page unchanged.
C16_PageIsolation ==
    [][/\ \A n \in 1..2 :
             IsSelection(AnnotationsForPage(annotations', n), annotations',
                         LAMBDA a : a.page = n)
       /\ ((\E t \in PagesTexts : MouseDownText(DownPoint[1], DownPoint[2], Some(t)))
            \/ (\E i \in 0..(MaxId - 1) : RemoveAnnotation(<<"", i>>))) =>
             \A n \in 1..2 :
                 n # currentPage =>
                     AnnotationsForPage(annotations', n) = AnnotationsForPage(annotations, n)]_vars

\* page 2 is shown and both pages carry an annotation
C16_Witness ==
    /\ currentPage = 2
    /\ Len(AnnotationsForPage(annotations, 1)) = 1
    /\ Len(AnnotationsForPage(annotations, 2)) = 1

\* the ids a run hands out, and one more
SomeIds == {<<"", i>> : i \in 0..MaxId}

\* C17: removeAnnotation(id) keeps exactly the committed annotations whose id
\* differs, in order; applied again with the same id, or with an id that is
\* absent, it returns the list unchanged; and the click that removes an
\* annotation leaves that result as the committed list.
C17_DeleteIdempotent ==
    [][/\ \A id \in SomeIds :
             LET r == RemoveAnnotationFrom(annotations', id) IN
             /\ IsSelection(r, annotations', LAMBDA a : a.id # id)
             /\ RemoveAnnotationFrom(r, id) = r
             /\ (\A i \in DOMAIN annotations' : annotations'[i].id # id) => r = annotations'
       /\ \A id \in SomeIds :
             RemoveAnnotation(id) =>
                 IsSelection(annotations', annotations, LAMBDA a : a.id # id)]_vars

\* two annotations were committed and one of them was removed
C17_Witness ==
    lastOp = "remove" /\ nextId = 2 /\ Len(annotations) = 1

\* C18: the ids of the committed annotations are pairwise different, also for
\* annotations committed within one millisecond, and removing by id removes
\* at most one annotation.
C18_UniqueIds ==
    [][/\ \A i, j \in DOMAIN annotations' :
             i # j => annotations'[i].id # annotations'[j].id
       /\ \A id \in SomeIds :
             DeleteAnnotation(id) => Len(annotations') >= Len(annotations) - 1]_vars

\* C20: a committed text annotation is text.length * (fontSize * 0.6) wide and
\* fontSize + 4 high, for the font size of the moment of the commit; "hi" at
\* 16 is 19.2 by 20 pixels.
C20_TextSizing ==
    [][\A t \in PagesTexts :
          MouseDownText(DownPoint[1], DownPoint[2], Some(t)) =>
              /\ Last(annotations').width * 10 = Len(t) * (fontSize * 6) * 100
              /\ Last(annotations').height = (fontSize + 4) * 100
              /\ Last(annotations').fontSize = Some(fontSize)
              /\ (t = "hi" /\ fontSize = 16) =>
                     (Last(annotations').width = 1920 /\ Last(annotations').height = 2000)]_vars

\* "hi" was committed at 16 and a text at 12
C20_Witness ==
    /\ \E i \in DOMAIN annotations :
          annotations[i].text = Some("hi") /\ annotations[i].fontSize = Some(16)
          /\ annotations[i].width = 1920
    /\ \E i \in DOMAIN annotations : annotations[i].fontSize = Some(12)

----------------------------------------------------------------------------
(* Claims about text edits *)

NoStaging == editingTextAnnotation = None /\ textEditMode = FALSE /\ selectedTextItem = None

\* C21: saving a text edit appends exactly one editText annotation whose text
\* is the text of the editor and whose originalText is the text of the
\* fragment that was hit, and clears the staging state.
C21_CommitTextEdit ==
    [][\A t \in SavedTexts :
          TextEditSave(t) =>
              /\ AppendedOne
              /\ Last(annotations').type = "editText"
              /\ Last(annotations').text = Some(t)
              /\ Last(annotations').originalText = Some(selectedTextItem[1].text)
              /\ NoStaging']_vars

\* the fragment "Hello" was edited to "Bye" and saved
C21_Witness ==
    /\ NoStaging
    /\ \E i \in DOMAIN annotations :
          /\ annotations[i].type = "editText"
          /\ annotations[i].text = Some("Bye")
          /\ annotations[i].originalText = Some("Hello")

\* C22: a press with the editText tool that hits the fragment (zoom up to
\* 150%) stages a copy and opens the editor, a press that misses it (zoom
\* above 150%) stages nothing, and cancelling clears the staging state; none
\* of the three changes the committed list or the history.
C22_StagingCommitsNothing ==
    [][/\ MouseDownEditText(DownPoint[1], DownPoint[2]) =>
             /\ UNCHANGED <<annotations, history, historyIndex, historyTimer>>
             /\ IF zoomLevel <= 150
                THEN /\ textEditMode'
                     /\ editingTextAnnotation' # None
                     /\ editingTextAnnotation'[1].text = Some("Hello")
                     /\ selectedTextItem' # None
                ELSE UNCHANGED editVars
       /\ TextEditCancel =>
             /\ UNCHANGED <<annotations, history, historyIndex, historyTimer>>
             /\ NoStaging']_vars

\* an edit is staged on top of a committed annotation whose history timer is
\* pending
C22_Witness ==
    /\ textEditMode /\ editingTextAnnotation # None /\ lastOp = "press"
    /\ Len(annotations) = 1 /\ historyTimer # None

----------------------------------------------------------------------------
(* Claims about freehand strokes *)

\* C23: a press with the freehand tool appends one 3 by 3 annotation at the
\* pointer and leaves the gesture active; a pointer move with the freehand
\* tool while the gesture is active appends one annotation at the pointer; a
\* pointer move without an active gesture leaves the committed list alone.
C23_Freehand ==
    [][/\ \A p \in DownPoints :
             MouseDownFreehand(p[1], p[2]) =>
                 /\ AppendedOne
                 /\ Last(annotations').type = "freehand"
                 /\ SameBox(Last(annotations'),
                            [x |-> p[1], y |-> p[2], width |-> Px(3), height |-> Px(3)])
                 /\ isDrawing'
       /\ \A p \in MovePoints :
             /\ (MouseMove(p[1], p[2]) /\ isDrawing /\ selectedTool = "freehand") =>
                    /\ AppendedOne
                    /\ Last(annotations').type = "freehand"
                    /\ Last(annotations').x = p[1]
                    /\ Last(annotations').y = p[2]
                    /\ isDrawing'
             /\ (MouseMove(p[1], p[2]) /\ ~isDrawing) => annotations' = annotations]_vars

\* a stroke of a seed and one move was drawn and released, and the pointer
\* moved again
C23_Witness ==
    /\ lastOp = "move"
    /\ ~isDrawing
    /\ Len(annotations) = 2
    /\ annotations[1].type = "freehand" /\ annotations[1].width = Px(3)
    /\ annotations[2].type = "freehand" /\ annotations[2].width = Px(2)

----------------------------------------------------------------------------
(* Claims about the renderer *)

\* C24: at most one renderPdfPage call is in flight at any time, whatever the
\* order of viewport changes, tool and page buttons, timers, completions and
\* failures.
C24_OneRenderInFlight == Len(renderCalls) <= 1

\* a paint is in progress and the viewport has changed since it started
C24_Witness ==
    /\ Len(renderCalls) = 1
    /\ renderCalls[1].stage = "paint"
    /\ renderCalls[1].closure.zoomLevel # zoomLevel
    /\ renderCalls[1].closure.pageNumber # currentPage

\* the user has stopped and the document is on screen
Stopped == changes = MaxChanges /\ EditorShown /\ pdfDocRef = selectedFile

\* the paint of the current page at the current zoom and rotation
CurrentPaint ==
    IF selectedFile = None
    THEN None
    ELSE Some([pdf |-> selectedFile[1], pageNumber |-> currentPage, zoomLevel |-> zoomLevel,
               pageRotation |-> pageRotation])

\* C25: a change of page, zoom or rotation leaves the render in flight as it
\* is; once the user has stopped, a paint with the latest page, zoom and
\* rotation completes, and from some point on the canvas shows only that
\* paint, or is cleared for repainting it.
C25_LatestViewportWins ==
    /\ [][(viewVars' # viewVars /\ pdfLoaded' = pdfLoaded) => renderCalls' = renderCalls]_vars
    /\ [](Stopped => <>(canvas = CurrentPaint))
    /\ [](Stopped => <>[](canvas = None \/ canvas = CurrentPaint))

\* the user has stopped while a paint with an older zoom is in progress
C25_Witness ==
    /\ Stopped
    /\ Len(renderCalls) = 1
    /\ renderCalls[1].stage = "paint"
    /\ renderCalls[1].closure.zoomLevel # zoomLevel

\* C26: a paint that throws surfaces errorMessage and releases the busy flag,
\* and it is retried once: after a second failure in a row no render is
\* pending.
C26_RenderErrorHandling ==
    lastOp = "renderFail" =>
        /\ errorMessage = Some(RenderErrorText)
        /\ renderingPage = FALSE
        /\ failures = 2 => renderTimeoutRef = None

----------------------------------------------------------------------------
(* Claims about documents and the viewport *)

\* C27: once a file has been selected or removed, the committed annotations
\* are [], the history is the single empty entry and historyIndex is 0, so
\* that undo and redo reach nothing of the previous document.
C27_SessionOwnership ==
    lastOp \in {"reset", "stale"} =>
        /\ annotations = << >>
        /\ history = <<[annotations |-> << >>]>>
        /\ historyIndex = 0

\* C28: selecting a file leaves no render timer and no history timer pending
\* and the busy flag released, and the canvas never shows a paint of another
\* document than the selected one.
C28_CancellationOnSwitch ==
    /\ lastOp = "switch" =>
            /\ renderTimeoutRef = None
            /\ historyTimer = None
            /\ renderingPage = FALSE
    /\ (canvas # None /\ selectedFile # None) => canvas[1].pdf = selectedFile[1]

\* C29: right after a document has been loaded the viewport is at its
\* defaults: page 1, zoom 100, rotation 0.
C29_ViewportLifecycle ==
    lastOp = "load" =>
        /\ currentPage = 1
        /\ zoomLevel = 100
        /\ pageRotation = 0

\* C30: the zoom level is always a multiple of 25 within [25, 200]; zoom-in
\* at 200 and zoom-out at 25 leave it as it is; a change of the font size
\* leaves the zoom level as it is, and a change of the zoom level the font
\* size.
C30_ZoomBounds ==
    /\ [](zoomLevel \in 25..200 /\ zoomLevel % 25 = 0)
    /\ [][/\ (lastOp' = "zoomIn" /\ zoomLevel = 200) => zoomLevel' = 200
          /\ (lastOp' = "zoomOut" /\ zoomLevel = 25) => zoomLevel' = 25
          /\ fontSize' # fontSize => zoomLevel' = zoomLevel
          /\ zoomLevel' # zoomLevel => fontSize' = fontSize]_vars

\* zoomed in to the upper limit with the font size changed
C30_Witness == lastOp = "zoomIn" /\ zoomLevel = 200 /\ fontSize = 72

\* C31: the current page of a loaded document is one of its pages, and a
\* change of the current page leaves a render of that page scheduled, unless
\* a render is in flight (the effect schedules it when that render returns).
C31_PageBounds ==
    /\ [](pdfLoaded => currentPage \in 1..Len(pdfPages))
    /\ [][(currentPage' # currentPage /\ EditorShown') =>
            \/ renderingPage'
            \/ /\ renderTimeoutRef' # None
               /\ renderTimeoutRef'[1].pageNumber = currentPage']_vars

\* the second page has been opened and its render is scheduled
C31_Witness ==
    /\ currentPage = 2
    /\ lastOp = "view"
    /\ renderTimeoutRef # None
    /\ renderTimeoutRef[1].pageNumber = 2

\* C32: the rotation is one of 0, 90, 180, 270; the Rotate button advances
\* it by 90 modulo 360, so that four presses in a row restore it, and leaves
\* the committed annotations and the history as they are.
C32_Rotate ==
    /\ [](pageRotation \in {0, 90, 180, 270})
    /\ [](NextRotation(NextRotation(NextRotation(NextRotation(pageRotation)))) = pageRotation)
    /\ [][lastOp' = "rotate" =>
            /\ pageRotation' = (pageRotation + 90) % 360
            /\ annotations' = annotations
            /\ history' = history
            /\ historyIndex' = historyIndex]_vars

\* rotated back to 0 over a recorded annotation
C32_Witness ==
    /\ lastOp = "rotate"
    /\ pageRotation = 0
    /\ Len(annotations) > 0
    /\ Len(history) > 1

\* the spinner "Loading PDF..." is on screen
LoadingViewShown == selectedFile # None /\ ~pdfLoaded

\* C34: while the error of a failed load is surfaced the session is not in
\* the document-loading state: the user is back at file selection.
C34_LoadError ==
    errorMessage = Some("Error loading PDF. The file may be corrupted or password protected.")
        => ~LoadingViewShown

----------------------------------------------------------------------------
(* Processing in the application shell (src/app/page.tsx) by signed-in users *)

ProcessOperations == {"compress", "ocr"}
ProcessSelections == {<<"a.pdf">>, <<"a.pdf", "b.docx">>}
\* the steps of the progress loop at which a failure is tried
ThrowSteps == {1, FilesSteps}

NextLimit ==
    \/ SignIn /\ Observe("signIn")
    \/ SignOut /\ Observe("signOut")
    \/ \E files \in ProcessSelections : AddFiles(files) /\ Observe("add")
    \/ \E operation \in ProcessOperations :
          /\ user # None
          /\ Len(fileOperations) + Len(selectedFiles) <= MaxOperations
          /\ ProcessFiles(operation)
          /\ Observe("process")
    \/ ProcessStep /\ Observe("step")

InitLimit == Init /\ obsMode = "draw"
SpecLimit == InitLimit /\ [][NextLimit]_vars

\* the same with calls that fail
NextProcess ==
    \/ NextLimit
    \/ job # None /\ job[1].i \in ThrowSteps /\ ProcessThrows /\ Observe("throws")

InitProcess == Init /\ obsMode = "draw"
SpecProcess == InitProcess /\ [][NextProcess]_vars

\* processing in either component, with the editor's file selection
NextTerminate ==
    \/ \E files \in ProcessSelections : AddFiles(files) /\ Observe("add")
    \/ /\ Len(fileOperations) + Len(selectedFiles) <= MaxOperations
       /\ ProcessFiles("compress")
       /\ Observe("process")
    \/ ProcessStep /\ Observe("step")
    \/ job # None /\ job[1].i \in ThrowSteps /\ ProcessThrows /\ Observe("throws")
    \/ FileSelect("a.pdf") /\ Observe("reset")
    \/ \E operation \in {"compress", "merge"} :
          /\ Len(fileOperations) < MaxOperations
          /\ ProcessWithTool(operation)
          /\ Observe("tool")

InitTerminate == Init /\ obsMode = "draw"
SpecTerminate ==
    InitTerminate /\ [][NextTerminate]_vars /\ WF_vars(ProcessStep /\ Observe("step"))

\* the record with this id, if any
RecordOf(ops, id) == {ops[k] : k \in {k \in DOMAIN ops : ops[k].id = id}}

\* C33: when a processing operation fails, its record ends with status
\* "failed", not "processing" and not "completed", and it is not started again.
C33_ProcessingError ==
    [][lastOp' = "throws" =>
          /\ \A r \in RecordOf(fileOperations', job[1].id) : r.status = "failed"
          /\ job' = None]_vars

\* C36: a signed-in free-plan user never holds more than three operation
\* records created by processFiles.
C36_ClientFreeLimit ==
    IsFree(user) => Len(fileOperations) <= FreeLimit

InProgress(id) == job # None /\ job[1].id = id

\* C40: the progress of a record never decreases and stays within 0..100, a
\* call that leaves a record without a failure leaves it completed at 100, and
\* every call returns: isLoading becomes false again.
C40_ProcessingTerminates ==
    /\ [](\A k \in DOMAIN fileOperations : fileOperations[k].progress \in 0..100)
    /\ [][\A k \in DOMAIN fileOperations :
              \A q \in RecordOf(fileOperations', fileOperations[k].id) :
                  q.progress >= fileOperations[k].progress]_vars
    /\ [][\A id \in 0..MaxOperations :
              (InProgress(id) /\ ~InProgress(id)' /\ lastOp' # "throws") =>
                  \A q \in RecordOf(fileOperations', id) :
                      q.status = "completed" /\ q.progress = 100]_vars
    /\ isLoading ~> ~isLoading

\* a call of processFiles over two files has completed both and returned
C40_Witness ==
    /\ lastOp = "step"
    /\ ~isLoading
    /\ Len(fileOperations) = 2
    /\ \A k \in DOMAIN fileOperations :
          fileOperations[k].status = "completed" /\ fileOperations[k].progress = 100

----------------------------------------------------------------------------
(* The server *)

\* requests the account sends in the day
MaxRequests == 4

NextServer ==
    \/ Len(srvReqs) < MaxRequests /\ SrvArrive /\ Observe("arrive")
    \/ \E r \in 1..MaxRequests : SrvCheckUsageLimits(r) /\ Observe("check")
    \/ \E r \in 1..MaxRequests : SrvSaveOperation(r) /\ Observe("save")
    \/ \E r \in 1..MaxRequests : SrvIncrementUsage(r) /\ Observe("increment")
    \/ \E id \in 1..MaxRequests : SrvTimerCompletes(id) /\ Observe("completed")
    \/ \E id \in 1..MaxRequests : SrvTimerFails(id) /\ Observe("failed")

InitServer == Init /\ obsMode = "draw"
SpecServer == InitServer /\ [][NextServer]_vars

\* operations of the account that the processing route accepted
Accepted == {id \in DOMAIN srvOps : srvOps[id].operation = "edit"}

\* C35: a free account has at most three processing operations accepted in a
\* day, however its requests interleave.
C35_ServerFreeLimit ==
    srvUser.plan = "free" => Cardinality(Accepted) <= DailyLimit

\* operations created while the routes are observed
MaxStored == 2

\* the routes that create, finish, delete and report operations
NextLifecycle ==
    \/ Len(srvOps) + Len(srvReqs) < MaxStored /\ SrvArrive /\ Observe("arrive")
    \/ \E r \in 1..MaxStored : SrvCheckUsageLimits(r) /\ Observe("check")
    \/ \E r \in 1..MaxStored : SrvSaveOperation(r) /\ Observe("save")
    \/ \E r \in 1..MaxStored : SrvIncrementUsage(r) /\ Observe("increment")
    \/ \E id \in 1..MaxStored : SrvTimerCompletes(id) /\ Observe("completed")
    \/ \E id \in 1..MaxStored : SrvTimerFails(id) /\ Observe("failed")
    \/ Len(srvOps) + Len(srvReqs) < MaxStored /\ SrvUpload /\ Observe("upload")
    \/ \E id \in 1..MaxStored : SrvCleanup(id) /\ Observe("cleanup")
    \/ \E id \in 1..MaxStored : SrvDownload(id) /\ Observe("download")
    \/ \E id \in 1..MaxStored : SrvOperationStatus(id) /\ Observe("operation")

InitLifecycle == Init /\ obsMode = "draw"
SpecLifecycle == InitLifecycle /\ [][NextLifecycle]_vars

\* C39: the status of an operation changes only from "processing" to
\* "completed" or to "failed" and never afterwards; the download route serves a
\* file only for a completed operation; the status route returns a download
\* URL exactly when the operation is completed.
C39_ServerLifecycle ==
    /\ [][\A id \in DOMAIN srvOps :
              srvOps'[id].status # srvOps[id].status =>
                  /\ srvOps[id].status = "processing"
                  /\ srvOps'[id].status \in {"completed", "failed"}]_vars
    /\ [](\A id \in DOMAIN srvOps : srvOps[id].status \in {"processing", "completed", "failed"})
    /\ [][lastOp' = "download" /\ srvResponse'[1].result = "file" =>
              /\ srvResponse'[1].id \in DOMAIN srvOps
              /\ srvOps[srvResponse'[1].id].status = "completed"]_vars
    /\ [][lastOp' = "operation" /\ srvResponse'[1].result.code = 200 =>
              (srvResponse'[1].result.downloadUrl # None
                  <=> srvOps[srvResponse'[1].id].status = "completed")]_vars

\* the status route has answered for a completed operation with its download
\* URL while another operation has failed
C39_Witness ==
    /\ lastOp = "operation"
    /\ srvResponse[1].result.downloadUrl # None
    /\ \E id \in DOMAIN srvOps : srvOps[id].status = "failed"
    /\ \E id \in DOMAIN srvOps : srvOps[id].status = "completed" /\ srvOps[id].operation = "edit"

\* C37: once the debounce timer has recorded the current list, history stops
\* growing until the committed list changes again: a history push leaves no
\* timer pending and is never followed directly by another push.
C37_HistoryQuiescence ==
    [][lastOp' = "timer" => (historyTimer' = None /\ lastOp # "timer")]_vars

\* C38: in every reachable state a pending annotation exists only while a
\* gesture is active: drawingAnnotation # null implies isDrawing.
C38_PendingImpliesDrawing ==
    drawingAnnotation # None => isDrawing

====
